---------------------------- MODULE Spec2Model ----------------------------
(***************************************************************************)
(* A model of the SnakeBot of snakeGame: the perception pipeline           *)
(* (buildClusters, identifySnakeCluster, refineSnakeCluster,               *)
(* reconstructSnake), the planner (findPath, planPath,                     *)
(* chooseSafeDirection) and the control loop (update).                     *)
(*                                                                         *)
(* A cell is a record [x, y].  A JavaScript null cell is the record        *)
(* `null', a null move is `NoMove', a null path is `NullPath'; a Set of    *)
(* coordKey strings is the set of the keys.  The object `this' is the      *)
(* record `self' handed to every method.                                   *)
(***************************************************************************)
EXTENDS Integers, Sequences, FiniteSets, TLC

VARIABLES
    bot,      \* the SnakeBot instance (its fields)
    pc,       \* position of the harness or of the loop
    args,     \* the inputs of the call under study
    ret,      \* what the call returned
    game,     \* the game the bot watches: overlays, snake, food, score
    log,      \* what the last tick did
    loop      \* the frame callbacks of start(): how many are scheduled

vars == <<bot, pc, args, ret, game, log, loop>>

(***************************************************************************)
(* Program constants.                                                      *)
(***************************************************************************)
GRID == 28
maxNodes == 20000
valueThreshold == 32
alphaThreshold == 20
learnerValueThreshold == 28  \* observe() of the Q-learner: value > 28
learnerAlphaThreshold == 15  \* and a > 15
Infinity == 1000000  \* stands for the Infinity of the Q-learner's bestDistance

(***************************************************************************)
(* Bounds of the model.                                                    *)
(***************************************************************************)
PlanGrid == 3       \* side of the board the planner is explored on
PlanMaxLen == 4     \* longest start body handed to the planner
ClusterGrid == 3    \* side of the board the flood fill is explored on
RecGrid == 3        \* side of the board reconstructSnake is explored on
RecMaxLen == 4      \* longest snake shown to reconstructSnake
TickGrid == 3       \* side of the board the control loop plays on
TickMaxScore == 2   \* food stops appearing once the score is this high
TickMaxBlanks == 1  \* blank frames the canvas shows in one game
IdentifyGrid == 3   \* side of the board identifySnakeCluster is explored on
IdentifyMaxLit == 3 \* bright cells on that board, at most
LoopMaxUpdates == 4 \* update() calls counted in the loop of start()
LoopMaxStarts == 2  \* start() calls counted
CapGrid == 3        \* side of the board the capped search is explored on
CapMaxLen == 3      \* longest start body handed to the capped search
CapMax == 6         \* largest node cap the search is run with
ReplanGrid == 3     \* side of the board planPath is explored on
ReplanMaxLen == 4   \* longest body handed to planPath
ReplanMaxPadded == 3 \* longest body with repeated or detached cells handed to it
ReplanMaxOff == 1   \* cells of such a body off the board at most
RefineGrid == 3     \* side of the board refineSnakeCluster is explored on
RefineMaxCells == 8 \* largest cluster handed to refineSnakeCluster
RefineMaxLen == 3   \* largest expected length handed to it
WalkGrid == 3       \* side of the board the greedy walk is explored on
WalkMaxCells == 8   \* largest cluster the walk is run on
FoodGrid == 3       \* side of the board the food is looked for on
FoodMaxLit == 4     \* bright cells on that board, at most
NearTieGrid == 10   \* side of the board with two nearly equally bright clusters
ExactTieGrid == 12  \* side of the board with two clusters a thousandth apart
TrainGrid == 2      \* side of the board the Q-learner trains and plays on
TrainMaxEpisodes == 2 \* largest number of episodes train() is called with
TrainMaxLimit == 1  \* largest noProgressLimit train() is called with
TrainMaxCalls == 2  \* calls of train() and play() in one run

null == [x |-> -1, y |-> -1]
\* The specifications of single calls have no game and no tick.
NoTicks == game = <<>> /\ log = <<>> /\ loop = <<>>
NoMove == [dx |-> 0, dy |-> 0, key |-> "", name |-> ""]
NullPath == [isNull |-> TRUE, path |-> <<>>]
Path(p) == [isNull |-> FALSE, path |-> p]

DIRSFlipped == << [dx |-> 0,  dy |-> 1,  key |-> "ArrowUp",    name |-> "up"],
                  [dx |-> 1,  dy |-> 0,  key |-> "ArrowRight", name |-> "right"],
                  [dx |-> 0,  dy |-> -1, key |-> "ArrowDown",  name |-> "down"],
                  [dx |-> -1, dy |-> 0,  key |-> "ArrowLeft",  name |-> "left"] >>

DIRS == << [dx |-> 0,  dy |-> -1, key |-> "ArrowUp",    name |-> "up"],
           [dx |-> 1,  dy |-> 0,  key |-> "ArrowRight", name |-> "right"],
           [dx |-> 0,  dy |-> 1,  key |-> "ArrowDown",  name |-> "down"],
           [dx |-> -1, dy |-> 0,  key |-> "ArrowLeft",  name |-> "left"] >>

Abs(n) == IF n < 0 THEN -n ELSE n
Min(a, b) == IF a < b THEN a ELSE b
Max(a, b) == IF a > b THEN a ELSE b
Range(s) == {s[i] : i \in 1..Len(s)}
Cell(cx, cy) == [x |-> cx, y |-> cy]

coordKey(cell) == <<cell.x, cell.y>>
sameCell(a, b) == a # null /\ b # null /\ a.x = b.x /\ a.y = b.y
manhattan(a, b) == Abs(a.x - b.x) + Abs(a.y - b.y)

(***************************************************************************)
(* The constructor: the fields update() and its callees read and write.    *)
(***************************************************************************)
NewBot(g, score) ==
    [ grid           |-> g,
      startCell      |-> Cell(g \div 2, g \div 2),
      valueThreshold |-> valueThreshold,
      prevSnakeKeys  |-> {},
      prevHead       |-> null,
      expectedHead   |-> null,
      commandPending |-> FALSE,
      plan           |-> <<>>,
      running        |-> FALSE,
      prevSnake      |-> <<>>,
      prevFood       |-> null,
      lastScore      |-> score,
      currentDir     |-> [x |-> 1, y |-> 0],
      lastBodyLength |-> 1 ]

isInside(self, pos) ==
    pos.x >= 0 /\ pos.y >= 0 /\ pos.x < self.grid /\ pos.y < self.grid

bodyKey(body) == [i \in 1..Len(body) |-> <<body[i].x, body[i].y>>]

(***************************************************************************)
(* findPath.  states and cursor are the source's; a search state's parent  *)
(* is the source's 0-based index (-1 for the start state), so states[i+1]  *)
(* is the source's states[i].                                              *)
(***************************************************************************)
RECURSIVE reconstructPathFrom(_, _, _)
reconstructPathFrom(states, cursor, path) ==
    IF cursor = -1 THEN path
    ELSE LET state == states[cursor + 1]
         IN reconstructPathFrom(states, state.parent,
                IF state.move # NoMove THEN path \o <<state.move>> ELSE path)

Reverse(s) == [i \in 1..Len(s) |-> s[Len(s) + 1 - i]]

reconstructPath(states, index) == Reverse(reconstructPathFrom(states, index, <<>>))

\* The body of `for (const dir of DIRS)' for one direction: acc holds the
\* states pushed so far in this pass and the visited set.
collisionBodyShort(state, grows) ==
    IF grows THEN state.body ELSE SubSeq(state.body, 1, Len(state.body) - 2)

collisionBody(state, grows) ==
    IF grows THEN state.body ELSE SubSeq(state.body, 1, Len(state.body) - 1)

tryDir(self, state, cursor, dir, target, mode, acc) ==
    LET newHead == Cell(state.head.x + dir.dx, state.head.y + dir.dy)
        grows == mode = "food" /\ sameCell(newHead, target)
        grown == <<newHead>> \o state.body
        newBody == IF grows THEN grown ELSE SubSeq(grown, 1, Len(grown) - 1)
        key == bodyKey(newBody)
    IN IF ~isInside(self, newHead) THEN acc
       ELSE IF \E i \in 1..Len(collisionBody(state, grows)) :
                   collisionBody(state, grows)[i].x = newHead.x
                   /\ collisionBody(state, grows)[i].y = newHead.y THEN acc
       ELSE IF key \in acc.visited THEN acc
       ELSE [ pushed  |-> acc.pushed \o << [head |-> newHead, body |-> newBody,
                                            parent |-> cursor, move |-> dir] >>,
              visited |-> acc.visited \cup {key} ]

expandState(self, state, cursor, target, mode, acc) ==
    tryDir(self, state, cursor, DIRS[4], target, mode,
      tryDir(self, state, cursor, DIRS[3], target, mode,
        tryDir(self, state, cursor, DIRS[2], target, mode,
          tryDir(self, state, cursor, DIRS[1], target, mode, acc))))

\* The loop body for cursor = lo .. hi-1 in order, split in halves so that
\* the evaluation nests logarithmically; the order of the pushes and of the
\* visited test is the loop's.  The tests on Len(_.pushed) are always passed:
\* they only make the first half's result a value before the second half
\* starts.
RECURSIVE expandRange(_, _, _, _, _, _, _)
expandRange(self, states, lo, hi, target, mode, acc) ==
    IF lo >= hi \/ Len(acc.pushed) < 0 THEN acc
    ELSE IF hi = lo + 1 THEN expandState(self, states[lo + 1], lo, target, mode, acc)
    ELSE LET mid == (lo + hi) \div 2
             first == expandRange(self, states, lo, mid, target, mode, acc)
         IN IF Len(first.pushed) >= 0
            THEN expandRange(self, states, mid, hi, target, mode, first)
            ELSE acc

isGoalAtStart(state, target, mode) == sameCell(state.head, target)

isGoalDeep(state, target, mode) ==
    sameCell(state.head, target) /\ state.parent > 0

isGoalAnd(state, target, mode) ==
    sameCell(state.head, target) /\ (mode = "food" /\ state.parent # -1)

isGoal(state, target, mode) ==
    sameCell(state.head, target) /\ (mode = "food" \/ state.parent # -1)

\* The while loop from `cursor', for a node cap `cap' (findPath runs it with
\* maxNodes): the states from cursor to the end of the array are visited in
\* order; the first goal among them ends the search, otherwise their
\* successors are pushed (while states.length < cap) and the loop goes on
\* with them.  Beside the returned path the result records what the loop
\* held when it returned: the length of `states' (stored), the value of
\* `cursor', which is the number of states whose successors were generated
\* (expanded), and the size of `visited' (keys).
\* `if (states.length < maxNodes) states.push(...)' over one pass of pushes:
\* of the states found, the first `room' are stored.
pushAll(pushed, room) == pushed

pushWithin(pushed, room) ==
    IF Len(pushed) > room THEN SubSeq(pushed, 1, room) ELSE pushed

RECURSIVE search(_, _, _, _, _, _, _)
search(self, states, visited, cursor, target, mode, cap) ==
    LET last == Min(Len(states), cap)
        goals == {i \in cursor..(last - 1) : isGoal(states[i + 1], target, mode)}
        stop == IF goals # {} THEN CHOOSE i \in goals : \A j \in goals : i <= j
                ELSE last
        acc == expandRange(self, states, cursor, stop, target, mode,
                           [pushed |-> <<>>, visited |-> visited])
        kept == pushWithin(acc.pushed, cap - Len(states))
    IN IF cursor >= last THEN
           [isNull |-> TRUE, path |-> <<>>, stored |-> Len(states),
            expanded |-> cursor, keys |-> Cardinality(visited)]
       ELSE IF goals # {} THEN
           [isNull |-> FALSE, path |-> reconstructPath(states, stop),
            stored |-> Len(states) + Len(kept), expanded |-> stop,
            keys |-> Cardinality(acc.visited)]
       ELSE search(self, states \o kept, acc.visited, last, target, mode, cap)

\* findPath with the node cap as a parameter, and what it returns.
searchFrom(self, body, cap, target, mode) ==
    LET startBody == body
        startKey == bodyKey(startBody)
    IN search(self,
              << [head |-> startBody[1], body |-> startBody,
                  parent |-> -1, move |-> NoMove] >>,
              {startKey}, 0, target, mode, cap)

returned(outcome) == [isNull |-> outcome.isNull, path |-> outcome.path]

findPath(self, body, target, mode) ==
    IF target = null THEN NullPath
    ELSE returned(searchFrom(self, body, maxNodes, target, mode))

(***************************************************************************)
(* Inputs: the snake-shaped bodies of a board.                             *)
(***************************************************************************)
CellsOf(g) == {Cell(cx, cy) : cx \in 0..(g - 1), cy \in 0..(g - 1)}

RECURSIVE Snakes(_, _)
Snakes(g, n) ==
    IF n = 1 THEN {<<c>> : c \in CellsOf(g)}
    ELSE UNION { {w \o <<c>> : c \in {d \in CellsOf(g) :
                                        manhattan(w[n - 1], d) = 1 /\ d \notin Range(w)}} :
                 w \in Snakes(g, n - 1) }

SnakesUpTo(g, n) == UNION {Snakes(g, k) : k \in 1..n}

(***************************************************************************)
(* The planner alone: findPath on every body, target and mode of a small   *)
(* board, and on the 28 x 28 board for one body.                           *)
(***************************************************************************)
ExampleBody == <<Cell(14, 14), Cell(13, 14), Cell(12, 14)>>
ExampleFood == Cell(14, 10)
\* A body coiled in the corner of the board: two free cells ahead of the head.
CoiledBody == <<Cell(0, 0), Cell(0, 1), Cell(1, 1), Cell(2, 1),
                Cell(2, 2), Cell(1, 2), Cell(0, 2)>>

\* A body whose head, in the corner, has its own body on both sides.
TrappedBody == <<Cell(0, 0), Cell(1, 0), Cell(1, 1), Cell(0, 1), Cell(0, 2)>>

InitFindPath ==
    /\ NoTicks
    /\ pc = "findPath"
    /\ ret = NullPath
    /\ \/ /\ bot = NewBot(PlanGrid, 0)
          /\ \E body \in SnakesUpTo(PlanGrid, PlanMaxLen), target \in CellsOf(PlanGrid),
                mode \in {"food", "tail"} :
                args = [body |-> body, target |-> target, mode |-> mode]
       \/ /\ bot = NewBot(PlanGrid, 0)
          /\ args = [body |-> CoiledBody, target |-> CoiledBody[Len(CoiledBody)],
                     mode |-> "tail"]
       \/ /\ bot = NewBot(GRID, 0)
          /\ args = [body |-> ExampleBody, target |-> ExampleFood, mode |-> "food"]

CallFindPath ==
    /\ pc = "findPath"
    /\ ret' = findPath(bot, args.body, args.target, args.mode)
    /\ pc' = "done"
    /\ UNCHANGED <<bot, args, game, log, loop>>

NextFindPath == CallFindPath

SpecFindPath == InitFindPath /\ [][NextFindPath]_vars

(***************************************************************************)
(* What a move does to a body, stated apart from findPath: the head after  *)
(* the move, whether the move eats, the cells the head must avoid, the     *)
(* body after the move.                                                    *)
(***************************************************************************)
HeadAfter(body, dir) == Cell(body[1].x + dir.dx, body[1].y + dir.dy)
Eats(body, dir, target, mode) == mode = "food" /\ HeadAfter(body, dir) = target
NonVacating(body, dir, target, mode) ==
    IF Eats(body, dir, target, mode) THEN Range(body)
    ELSE {body[i] : i \in 1..(Len(body) - 1)}
LegalMove(g, body, dir, target, mode) ==
    /\ HeadAfter(body, dir) \in CellsOf(g)
    /\ HeadAfter(body, dir) \notin NonVacating(body, dir, target, mode)
BodyAfter(body, dir, target, mode) ==
    IF Eats(body, dir, target, mode) THEN <<HeadAfter(body, dir)>> \o body
    ELSE <<HeadAfter(body, dir)>> \o SubSeq(body, 1, Len(body) - 1)

RECURSIVE SafeReplay(_, _, _, _, _)
SafeReplay(g, body, path, target, mode) ==
    \/ path = <<>>
    \/ /\ path[1] \in Range(DIRS)
       /\ LegalMove(g, body, path[1], target, mode)
       /\ SafeReplay(g, BodyAfter(body, path[1], target, mode), Tail(path), target, mode)

RECURSIVE BodyAfterPath(_, _, _, _)
BodyAfterPath(body, path, target, mode) ==
    IF path = <<>> THEN body
    ELSE BodyAfterPath(BodyAfter(body, path[1], target, mode), Tail(path), target, mode)

\* C1: every move of a path returned by findPath, replayed from the start
\* body, puts the head on a cell of the grid that the non-vacating part of
\* the body at that step does not occupy.
C1_PathMovesAreSafe ==
    (pc = "done" /\ ~ret.isNull) =>
        SafeReplay(bot.grid, args.body, ret.path, args.target, args.mode)

\* C1's case: a path of three moves or more was returned for a body of three
\* cells or more that lies between the head and the target.
C1_Witness ==
    /\ pc = "done" /\ ~ret.isNull
    /\ Len(args.body) >= 3 /\ Len(ret.path) >= 3
    /\ Len(ret.path) > manhattan(args.body[1], args.target)

\* C7: on the 28 x 28 grid, body (14,14),(13,14),(12,14) and food (14,10)
\* give exactly up, up, up, up.
C7_ExampleFourUps ==
    (pc = "done" /\ bot.grid = GRID /\ args.body = ExampleBody
        /\ args.target = ExampleFood /\ args.mode = "food") =>
        ret = Path(<<DIRS[1], DIRS[1], DIRS[1], DIRS[1]>>)

C7_Witness ==
    /\ pc = "done" /\ bot.grid = 28
    /\ args.body = <<Cell(14, 14), Cell(13, 14), Cell(12, 14)>>
    /\ args.target = Cell(14, 10) /\ args.mode = "food"
    /\ ~ret.isNull /\ Len(ret.path) = 4
    /\ \A i \in 1..4 : ret.path[i].name = "up" /\ ret.path[i].dy = -1

\* A legal move that does not reverse the heading (head minus neck).
NonReversing(body, dir) ==
    Len(body) < 2 \/ ~(dir.dx = -(body[1].x - body[2].x) /\ dir.dy = -(body[1].y - body[2].y))
HasLegalNonReversingMove(g, body) ==
    \E i \in 1..4 : LegalMove(g, body, DIRS[i], null, "tail") /\ NonReversing(body, DIRS[i])

\* C5 as stated: in tail mode toward the current tail cell, a legal
\* non-reversing move from the head is enough for a non-empty path.
C5_Original ==
    (pc = "done" /\ args.mode = "tail" /\ args.target = args.body[Len(args.body)]
        /\ HasLegalNonReversingMove(bot.grid, args.body)) =>
        (~ret.isNull /\ Len(ret.path) >= 1)

\* The bodies legal moves lead to (tail mode: no growth), as a fixpoint.
MovesFrom(g, body) ==
    {BodyAfter(body, DIRS[i], null, "tail") :
        i \in {j \in 1..4 : LegalMove(g, body, DIRS[j], null, "tail")}}
RECURSIVE ReachableFrom(_, _)
ReachableFrom(g, seen) ==
    LET more == seen \cup UNION {MovesFrom(g, b) : b \in seen}
    IN IF more = seen THEN seen ELSE ReachableFrom(g, more)
TailCellReachable(g, body) ==
    \E b \in ReachableFrom(g, {body}) : b # body /\ b[1] = body[Len(body)]

\* C5 (amended): the tail-chasing search returns a non-empty path exactly
\* when legal moves lead to a configuration other than the starting one whose
\* head is on the starting tail cell.
C5_TailChaseFindsReachableTail ==
    (pc = "done" /\ args.mode = "tail" /\ args.target = args.body[Len(args.body)]
        ) =>
        ((~ret.isNull /\ Len(ret.path) >= 1) <=> TailCellReachable(bot.grid, args.body))

\* C5's case: a body of three cells or more with a legal non-reversing move
\* whose tail cell the head can reach, and the path that does so.
C5_Witness ==
    /\ pc = "done" /\ args.mode = "tail" /\ args.target = args.body[Len(args.body)]
    /\ Len(args.body) >= 3
    /\ HasLegalNonReversingMove(bot.grid, args.body)
    /\ ~ret.isNull /\ Len(ret.path) >= 2

(***************************************************************************)
(* The heading and the single-step safety heuristic.  A state is the       *)
(* record [head, tail, body, food] analyzeBoard returns; NoState is null.  *)
(***************************************************************************)
NoState == [head |-> null, tail |-> null, body |-> <<>>, food |-> null]
StateOf(body, food) ==
    [head |-> body[1], tail |-> body[Len(body)], body |-> body, food |-> food]

updateCurrentDir(self, state) ==
    IF state = NoState \/ Len(state.body) = 0 THEN self
    ELSE IF Len(state.body) >= 2 THEN
        [self EXCEPT !.currentDir = [x |-> state.body[1].x - state.body[2].x,
                                     y |-> state.body[1].y - state.body[2].y]]
    ELSE IF self.expectedHead # null THEN
        [self EXCEPT !.currentDir = [x |-> self.expectedHead.x - state.body[1].x,
                                     y |-> self.expectedHead.y - state.body[1].y]]
    ELSE self

shouldAvoidWall(self, state) ==
    ~isInside(self, Cell(state.head.x + self.currentDir.x,
                         state.head.y + self.currentDir.y))

perpendicularDirs(self) ==
    IF self.currentDir.x # 0 THEN SelectSeq(DIRS, LAMBDA dir : dir.dx = 0)
    ELSE IF self.currentDir.y # 0 THEN SelectSeq(DIRS, LAMBDA dir : dir.dy = 0)
    ELSE DIRS

\* The test of sendDirection and chooseSafeDirection: dir is the reverse of
\* the heading of a body of more than one cell.
isReversalLong(self, dir) ==
    /\ self.lastBodyLength > 2
    /\ dir.dx = -self.currentDir.x /\ dir.dy = -self.currentDir.y

isReversal(self, dir) ==
    /\ self.lastBodyLength > 1
    /\ dir.dx = -self.currentDir.x /\ dir.dy = -self.currentDir.y

\* order: the preferred directions (nulls and repeats skipped), then the
\* directions of DIRS not yet seen.
RECURSIVE appendUnseen(_, _, _)
appendUnseen(order, dirs, i) ==
    IF i > Len(dirs) THEN order
    ELSE IF dirs[i] = NoMove
            \/ \E j \in 1..Len(order) : order[j].dx = dirs[i].dx /\ order[j].dy = dirs[i].dy
         THEN appendUnseen(order, dirs, i + 1)
         ELSE appendUnseen(order \o <<dirs[i]>>, dirs, i + 1)

survivesOffGrid(self, state, dir) ==
    /\ ~isReversal(self, dir)
    /\ ~\E i \in 1..(Len(state.body) - 1) :
            /\ state.body[i].x = state.head.x + dir.dx
            /\ state.body[i].y = state.head.y + dir.dy

survives(self, state, dir) ==
    /\ ~isReversal(self, dir)
    /\ isInside(self, Cell(state.head.x + dir.dx, state.head.y + dir.dy))
    /\ ~\E i \in 1..(Len(state.body) - 1) :
            /\ state.body[i].x = state.head.x + dir.dx
            /\ state.body[i].y = state.head.y + dir.dy

chooseSafeDirection(self, state, preferred) ==
    LET order == appendUnseen(appendUnseen(<<>>, preferred, 1), DIRS, 1)
        passing == {i \in 1..Len(order) : survives(self, state, order[i])}
    IN IF passing = {} THEN NoMove
       ELSE order[CHOOSE i \in passing : \A j \in passing : i <= j]

planPathTailFirst(self, state) ==
    IF state = NoState THEN <<>>
    ELSE LET pathToFood == IF state.food # null
                           THEN findPath(self, state.body, state.food, "food")
                           ELSE NullPath
             fallback == findPath(self, state.body, state.body[Len(state.body)], "tail")
             safe == chooseSafeDirection(self, state, <<>>)
         IN IF ~fallback.isNull /\ Len(fallback.path) > 0 THEN fallback.path
            ELSE IF ~pathToFood.isNull /\ Len(pathToFood.path) > 0 THEN pathToFood.path
            ELSE IF safe # NoMove THEN <<safe>>
            ELSE <<>>

planPath(self, state) ==
    IF state = NoState THEN <<>>
    ELSE LET pathToFood == IF state.food # null
                           THEN findPath(self, state.body, state.food, "food")
                           ELSE NullPath
             fallback == findPath(self, state.body, state.body[Len(state.body)], "tail")
             safe == chooseSafeDirection(self, state, <<>>)
         IN IF ~pathToFood.isNull /\ Len(pathToFood.path) > 0 THEN pathToFood.path
            ELSE IF ~fallback.isNull /\ Len(fallback.path) > 0 THEN fallback.path
            ELSE IF safe # NoMove THEN <<safe>>
            ELSE <<>>

(***************************************************************************)
(* chooseSafeDirection as update() calls it: lastBodyLength and the        *)
(* heading are taken from the tick's state first (update, lines 156-157).  *)
(***************************************************************************)
PreferredLists ==
    {<<>>} \cup {<<d>> : d \in Range(DIRS) \cup {NoMove}}
           \cup {<<d, e>> : d \in Range(DIRS), e \in Range(DIRS)}

NeighboursOf(g, c) == {d \in CellsOf(g) : manhattan(c, d) = 1}

InitSafeDir ==
    /\ NoTicks
    /\ pc = "chooseSafeDirection"
    /\ ret = NoMove
    /\ \E body \in SnakesUpTo(PlanGrid, PlanMaxLen) \cup {TrappedBody},
          preferred \in PreferredLists :
          /\ args = [body |-> body, preferred |-> preferred]
          /\ \E eh \in {null} \cup NeighboursOf(PlanGrid, body[1]) :
                bot = [NewBot(PlanGrid, Len(body) - 1) EXCEPT
                          !.expectedHead = IF Len(body) = 1 THEN eh ELSE null]

CallChooseSafeDirection ==
    /\ pc = "chooseSafeDirection"
    /\ LET state == StateOf(args.body, null)
           self == updateCurrentDir([bot EXCEPT !.lastBodyLength = Len(state.body)], state)
       IN /\ bot' = self
          /\ ret' = chooseSafeDirection(self, state, args.preferred)
    /\ pc' = "done"
    /\ UNCHANGED <<args, game, log, loop>>

NextSafeDir == CallChooseSafeDirection

SpecSafeDir == InitSafeDir /\ [][NextSafeDir]_vars

\* C6: with a body of more than one cell, chooseSafeDirection never returns
\* the direction opposite to the heading (head minus neck), whatever the
\* preferred list; with heading (1,0) it never returns (-1,0).
C6_NeverReverses ==
    (pc = "done" /\ Len(args.body) > 1) =>
        /\ ~(ret.dx = -(args.body[1].x - args.body[2].x)
              /\ ret.dy = -(args.body[1].y - args.body[2].y))
        /\ (args.body[1].x - args.body[2].x = 1 /\ args.body[1].y = args.body[2].y)
              => ~(ret.dx = -1 /\ ret.dy = 0)

\* C6's case: a two-cell body heading (1,0) whose preferred list starts with
\* (-1,0), a move onto the vacating tail cell that only the reversal test
\* rejects; another direction was returned.
C6_Witness ==
    /\ pc = "done" /\ Len(args.body) = 2
    /\ args.body[1].x - args.body[2].x = 1
    /\ Len(args.preferred) >= 1 /\ args.preferred[1] = DIRS[4]
    /\ ret # NoMove /\ ret # DIRS[4]

(***************************************************************************)
(* Perception.  metrics maps a cell to its sample [value, a, bright]: the  *)
(* source's metrics[y][x].  A cluster is [cells, set]: the cells in        *)
(* traversal order and the set of their keys.                              *)
(***************************************************************************)
\* analyzeBoard, line 264: the brightness mark of a sample.
Sample(value, a) ==
    [value |-> value, a |-> a,
     bright |-> value > valueThreshold /\ a > alphaThreshold]

\* The neighbours visit() looks at, in its order.
floodNeighbors8(cx, cy) ==
    << <<cx + 1, cy>>, <<cx - 1, cy>>, <<cx, cy + 1>>, <<cx, cy - 1>>,
       <<cx + 1, cy + 1>>, <<cx - 1, cy - 1>> >>

floodNeighbors(cx, cy) ==
    << <<cx + 1, cy>>, <<cx - 1, cy>>, <<cx, cy + 1>>, <<cx, cy - 1>> >>

\* `for (const [nx, ny] of neighbors)': st is [stack, visited].
RECURSIVE pushNeighbors(_, _, _, _, _)
pushNeighbors(self, metrics, neighbors, i, st) ==
    IF i > Len(neighbors) THEN st
    ELSE LET nx == neighbors[i][1]
             ny == neighbors[i][2]
             key == coordKey(Cell(nx, ny))
         IN IF nx < 0 \/ ny < 0 \/ nx >= self.grid \/ ny >= self.grid
               THEN pushNeighbors(self, metrics, neighbors, i + 1, st)
            ELSE IF ~metrics[Cell(nx, ny)].bright
               THEN pushNeighbors(self, metrics, neighbors, i + 1, st)
            ELSE IF key \in st.visited
               THEN pushNeighbors(self, metrics, neighbors, i + 1, st)
            ELSE pushNeighbors(self, metrics, neighbors, i + 1,
                    [stack |-> st.stack \o <<neighbors[i]>>,
                     visited |-> st.visited \cup {key}])

\* One turn of `while (stack.length)' of visit(): st is [stack, cells, set,
\* visited], and an empty stack leaves it as it is.
visitTurn(self, metrics, st) ==
    IF Len(st.stack) = 0 THEN st
    ELSE LET top == st.stack[Len(st.stack)]
             cx == top[1]
             cy == top[2]
             pushed == pushNeighbors(self, metrics, floodNeighbors(cx, cy), 1,
                           [stack |-> SubSeq(st.stack, 1, Len(st.stack) - 1),
                            visited |-> st.visited])
         IN [stack |-> pushed.stack,
             cells |-> st.cells \o <<Cell(cx, cy)>>,
             set |-> st.set \cup {coordKey(Cell(cx, cy))},
             visited |-> pushed.visited]

\* `while (stack.length)' of visit(), as n turns: the first half of them, then
\* the rest from where the first half ended.
RECURSIVE visitLoop(_, _, _, _)
visitLoop(self, metrics, n, st) ==
    IF n <= 1 THEN visitTurn(self, metrics, st)
    ELSE CHOOSE done \in {visitLoop(self, metrics, n - (n \div 2), half) :
                             half \in {visitLoop(self, metrics, n \div 2, st)}} : TRUE

\* A cell is pushed once at most, so the loop ends within one turn per cell of
\* the board.
visit(self, metrics, x, y, visited) ==
    LET done == visitLoop(self, metrics, self.grid * self.grid,
                          [stack |-> << <<x, y>> >>, cells |-> <<>>, set |-> {},
                           visited |-> visited \cup {coordKey(Cell(x, y))}])
    IN [cells |-> done.cells, set |-> done.set, visited |-> done.visited]

\* The test of the double loop of buildClusters: the cell starts a cluster.
startsClusterAlways(metrics, visited, x, y) ==
    metrics[Cell(x, y)].bright

startsCluster(metrics, visited, x, y) ==
    metrics[Cell(x, y)].bright /\ coordKey(Cell(x, y)) \notin visited

\* The body of the double loop for the n-th cell scanned, y = n div grid and
\* x = n mod grid: st is [clusters, visited].
scanCell(self, metrics, n, st) ==
    LET x == n % self.grid
        y == n \div self.grid
        v == visit(self, metrics, x, y, st.visited)
    IN IF startsCluster(metrics, st.visited, x, y)
       THEN [clusters |-> st.clusters \o <<[cells |-> v.cells, set |-> v.set]>>,
             visited |-> v.visited]
       ELSE st

\* The double loop, row by row, over the n cells scanned from the from-th on:
\* the first half of them, then the rest from where the first half ended.
RECURSIVE scanCells(_, _, _, _, _)
scanCells(self, metrics, from, n, st) ==
    IF n <= 1 THEN (IF n = 1 THEN scanCell(self, metrics, from, st) ELSE st)
    ELSE CHOOSE done \in {scanCells(self, metrics, from + (n \div 2), n - (n \div 2), half) :
                             half \in {scanCells(self, metrics, from, n \div 2, st)}} : TRUE

buildClusters(self, metrics) ==
    scanCells(self, metrics, 0, self.grid * self.grid,
              [clusters |-> <<>>, visited |-> {}]).clusters

(***************************************************************************)
(* buildClusters alone, on every brightness grid of a small board.         *)
(***************************************************************************)
DarkSample == Sample(0, 255)
LitSample == Sample(200, 255)

InitClusters ==
    /\ NoTicks
    /\ pc = "buildClusters"
    /\ ret = <<>>
    /\ bot = NewBot(ClusterGrid, 0)
    /\ \E m \in [CellsOf(ClusterGrid) -> {DarkSample, LitSample}] : args = [metrics |-> m]

CallBuildClusters ==
    /\ pc = "buildClusters"
    /\ ret' = buildClusters(bot, args.metrics)
    /\ pc' = "done"
    /\ UNCHANGED <<bot, args, game, log, loop>>

NextClusters == CallBuildClusters

SpecClusters == InitClusters /\ [][NextClusters]_vars

BrightCells(g, metrics) == {c \in CellsOf(g) : metrics[c].bright}

\* C8: the clusters partition the bright cells: every bright cell is in
\* exactly one cluster, no cell is twice in a cluster, no cluster holds a
\* cell that is not bright.
C8_ClustersPartitionBrightCells ==
    pc = "done" =>
        /\ \A c \in BrightCells(bot.grid, args.metrics) :
              Cardinality({k \in 1..Len(ret) : c \in Range(ret[k].cells)}) = 1
        /\ \A k \in 1..Len(ret) :
              /\ \A i, j \in 1..Len(ret[k].cells) :
                    i # j => ret[k].cells[i] # ret[k].cells[j]
              /\ Range(ret[k].cells) \subseteq BrightCells(bot.grid, args.metrics)
              /\ ret[k].cells # <<>>

\* C8's case: a grid with bright and dark cells whose bright cells fall into
\* two clusters or more, one of them of three cells or more.
C8_Witness ==
    /\ pc = "done" /\ Len(ret) >= 2
    /\ \E k \in 1..Len(ret) : Len(ret[k].cells) >= 3
    /\ BrightCells(bot.grid, args.metrics) # CellsOf(bot.grid)

\* The bright cells a path of 4-adjacent bright cells joins to c.
RECURSIVE RegionFrom(_, _)
RegionFrom(bright, seen) ==
    LET more == seen \cup {d \in bright : \E c \in seen : manhattan(c, d) = 1}
    IN IF more = seen THEN seen ELSE RegionFrom(bright, more)

\* C9: two bright cells are in the same cluster exactly when a path of
\* 4-adjacent bright cells joins them.
C9_ClustersAreFourConnectedRegions ==
    pc = "done" =>
        \A c \in BrightCells(bot.grid, args.metrics) :
            UNION {Range(ret[k].cells) : k \in {j \in 1..Len(ret) : c \in Range(ret[j].cells)}}
            = RegionFrom(BrightCells(bot.grid, args.metrics), {c})

\* C9's case: two regions that touch only diagonally are two clusters, and
\* a region with a one-cell bottleneck (a cell whose removal disconnects it)
\* is one cluster.
C9_Witness ==
    /\ pc = "done" /\ Len(ret) = 2
    /\ \E c \in Range(ret[1].cells), d \in Range(ret[2].cells) :
          Abs(c.x - d.x) = 1 /\ Abs(c.y - d.y) = 1
    /\ \E k \in 1..2 : \E b \in Range(ret[k].cells) :
          /\ Len(ret[k].cells) >= 3
          /\ \E c \in Range(ret[k].cells) \ {b} :
                RegionFrom(Range(ret[k].cells) \ {b}, {c}) # Range(ret[k].cells) \ {b}

(***************************************************************************)
(* reconstructSnake.  A snake is [head, tail, body]; NoSnake is null.      *)
(* this.prevSnake null and this.prevSnake empty are both <<>>: the source  *)
(* tests `this.prevSnake && this.prevSnake.length' wherever it reads it.   *)
(***************************************************************************)
NoSnake == [head |-> null, tail |-> null, body |-> <<>>]
NoCluster == [cells |-> <<>>, set |-> {}]

getNeighbors(self, cell, set) ==
    LET options == << Cell(cell.x + 1, cell.y), Cell(cell.x - 1, cell.y),
                      Cell(cell.x, cell.y + 1), Cell(cell.x, cell.y - 1) >>
    IN SelectSeq(options, LAMBDA pos :
           ~(pos.x < 0 \/ pos.y < 0 \/ pos.x >= self.grid \/ pos.y >= self.grid)
           /\ coordKey(pos) \in set)

\* Array.prototype.find: the first element passing the test, or null.
FirstIndex(s, Test(_)) ==
    LET hits == {i \in 1..Len(s) : Test(s[i])}
    IN IF hits = {} THEN 0 ELSE CHOOSE i \in hits : \A j \in hits : i <= j

\* A stable sort by ascending Manhattan distance to reference: the first
\* element of the sorted array is the first of the nearest.
NearestFirst(s, reference) ==
    s[FirstIndex(s, LAMBDA c : \A j \in 1..Len(s) :
                         manhattan(c, reference) <= manhattan(s[j], reference))]

\* Lines 489-516: the head.
pickHeadIgnoringExpected(self, cells, set) ==
    LET candidate == IF self.prevHead = null THEN 0
                     ELSE FirstIndex(cells, LAMBDA c :
                              manhattan(c, self.prevHead) = 1 /\ ~sameCell(c, self.prevHead))
        endpoints == SelectSeq(cells, LAMBDA c : Len(getNeighbors(self, c, set)) <= 1)
        reference == IF self.prevHead # null THEN self.prevHead ELSE self.startCell
    IN IF candidate # 0 THEN cells[candidate]
       ELSE IF Len(endpoints) = 1 THEN endpoints[1]
       ELSE IF Len(endpoints) > 1 THEN NearestFirst(endpoints, reference)
       ELSE NearestFirst(cells, reference)

pickHead(self, cells, set) ==
    LET byExpected == self.expectedHead # null /\ coordKey(self.expectedHead) \in set
        candidate == IF self.prevHead = null THEN 0
                     ELSE FirstIndex(cells, LAMBDA c :
                              manhattan(c, self.prevHead) = 1 /\ ~sameCell(c, self.prevHead))
        endpoints == SelectSeq(cells, LAMBDA c : Len(getNeighbors(self, c, set)) <= 1)
        reference == IF self.prevHead # null THEN self.prevHead ELSE self.startCell
    IN IF byExpected THEN self.expectedHead
       ELSE IF candidate # 0 THEN cells[candidate]
       ELSE IF Len(endpoints) = 1 THEN endpoints[1]
       ELSE IF Len(endpoints) > 1 THEN NearestFirst(endpoints, reference)
       ELSE NearestFirst(cells, reference)

\* Lines 527-532: a neighbour the walk may move to.
walkableRevisiting(candidate, prev, visited) ==
    ~(prev # null /\ sameCell(candidate, prev))

walkable(candidate, prev, visited) ==
    /\ ~(prev # null /\ sameCell(candidate, prev))
    /\ coordKey(candidate) \notin visited

\* Lines 518-541: the walk.  The result is [aborted, body].
RECURSIVE walk(_, _, _, _, _, _)
walk(self, set, current, prev, body, visited) ==
    LET body1 == body \o <<current>>
        visited1 == visited \cup {coordKey(current)}
        neighbors == getNeighbors(self, current, set)
        next == FirstIndex(neighbors, LAMBDA candidate :
                    walkable(candidate, prev, visited1))
    IN IF next = 0 THEN [aborted |-> FALSE, body |-> body1]
       ELSE IF Len(body1) > Cardinality(set) + 2 THEN [aborted |-> TRUE, body |-> body1]
       ELSE walk(self, set, neighbors[next], current, body1, visited1)

\* Lines 547-553: the cells appended from the previous body.
paddingUnbounded(self, body, expectedLen) ==
    IF Len(body) < expectedLen /\ Len(self.prevSnake) > 0
    THEN Reverse(self.prevSnake)
    ELSE <<>>

padding(self, body, expectedLen) ==
    IF Len(body) < expectedLen /\ Len(self.prevSnake) > 0
    THEN LET missing == expectedLen - Len(body)
             from == Max(1, Len(self.prevSnake) - missing + 1)
             supplement == SubSeq(self.prevSnake, from, Len(self.prevSnake))
         IN Reverse(supplement)
    ELSE <<>>

reconstructSnake(self, cluster, metrics, expectedLen) ==
    IF cluster = NoCluster \/ Len(cluster.cells) = 0 THEN NoSnake
    ELSE LET set == cluster.set
             cells == cluster.cells
             head == pickHead(self, cells, set)
             walked == walk(self, set, head, null, <<>>, {})
             cut == IF Len(walked.body) > expectedLen
                    THEN SubSeq(walked.body, 1, expectedLen) ELSE walked.body
             body == cut \o padding(self, cut, expectedLen)
         IN IF walked.aborted THEN NoSnake
            ELSE IF Len(body) < expectedLen THEN NoSnake
            ELSE [head |-> body[1], tail |-> body[Len(body)], body |-> body]

(***************************************************************************)
(* reconstructSnake alone.  The bot has seen the body `before' (prevSnake, *)
(* prevHead) and may expect a head; the cluster holds the cells of the     *)
(* body `now', which is `before' or `before' moved by one cell (grown or   *)
(* not), in scan order or in the reverse order; the score gives the length *)
(* of `now', one less or one more.                                         *)
(***************************************************************************)
Advanced(g, before) ==
    {before} \cup
    UNION {{BodyAfter(before, DIRS[i], null, "tail"),
            <<HeadAfter(before, DIRS[i])>> \o before} :
           i \in {j \in 1..4 : LegalMove(g, before, DIRS[j], null, "tail")}}

ScanOrder(g, cellSet) ==
    LET n(c) == c.y * g + c.x
    IN [i \in 1..Cardinality(cellSet) |->
            CHOOSE c \in cellSet : Cardinality({d \in cellSet : n(d) < n(c)}) = i - 1]

ClusterOf(cells) == [cells |-> cells, set |-> {coordKey(cells[i]) : i \in 1..Len(cells)}]

InitReconstruct ==
    /\ NoTicks
    /\ pc = "reconstructSnake"
    /\ ret = NoSnake
    /\ \E before \in SnakesUpTo(RecGrid, RecMaxLen) :
       \E now \in Advanced(RecGrid, before) :
       \E eh \in {null} \cup NeighboursOf(RecGrid, before[1]) :
       \E known \in BOOLEAN, reversed \in BOOLEAN, delta \in {-1, 0, 1} :
          /\ Len(now) + delta >= 1
          /\ bot = [NewBot(RecGrid, Len(now) + delta - 1) EXCEPT
                       !.prevSnake = IF known THEN before ELSE <<>>,
                       !.prevSnakeKeys = IF known THEN {coordKey(c) : c \in Range(before)}
                                         ELSE {},
                       !.prevHead = IF known THEN before[1] ELSE null,
                       !.expectedHead = IF known THEN eh ELSE null]
          /\ args = [cluster |-> ClusterOf(IF reversed
                                            THEN Reverse(ScanOrder(RecGrid, Range(now)))
                                            ELSE ScanOrder(RecGrid, Range(now))),
                     expectedLen |-> Len(now) + delta]

CallReconstructSnake ==
    /\ pc = "reconstructSnake"
    /\ ret' = reconstructSnake(bot, args.cluster, <<>>, args.expectedLen)
    /\ pc' = "done"
    /\ UNCHANGED <<bot, args, game, log, loop>>

NextReconstruct == CallReconstructSnake

SpecReconstruct == InitReconstruct /\ [][NextReconstruct]_vars

\* C3: a returned snake has exactly expectedLength = score + 1 cells.
C3_BodyLengthIsExpected ==
    (pc = "done" /\ ret # NoSnake) =>
        /\ Len(ret.body) = args.expectedLen
        /\ Len(ret.body) = bot.lastScore + 1

\* C3's case: the walk over a two-cell cluster is shorter than the three
\* cells the score asks for, and the body is padded from the previous body
\* up to exactly three cells.
C3_Witness ==
    /\ pc = "done" /\ ret # NoSnake
    /\ Len(args.cluster.cells) = 2 /\ args.expectedLen = 3
    /\ Len(bot.prevSnake) = 2
    /\ ret.body[1] \in Range(args.cluster.cells)
    /\ ret.body[3] \in Range(bot.prevSnake)

\* C4: in a returned body consecutive cells are at Manhattan distance 1 and
\* no cell occurs twice.
C4_BodyIsContiguousAndUnique ==
    (pc = "done" /\ ret # NoSnake) =>
        /\ \A i \in 1..(Len(ret.body) - 1) : manhattan(ret.body[i], ret.body[i + 1]) = 1
        /\ \A i, j \in 1..Len(ret.body) : i # j => ret.body[i] # ret.body[j]

(***************************************************************************)
(* The rest of analyzeBoard: the snake cluster, its refinement, the food.  *)
(***************************************************************************)
overlap(self, cluster) ==
    Cardinality({i \in 1..Len(cluster.cells) : coordKey(cluster.cells[i]) \in self.prevSnakeKeys})

\* Line 395: does this cluster replace the best so far?
replacesBestOnTie(overlapCount, score) == overlapCount >= score

replacesBest(overlapCount, score) == overlapCount > score

\* Lines 388-399: the loop over the clusters; st is [best, score].
RECURSIVE bestByOverlap(_, _, _, _)
bestByOverlap(self, clusters, i, st) ==
    IF i > Len(clusters) THEN st.best
    ELSE bestByOverlap(self, clusters, i + 1,
             IF replacesBest(overlap(self, clusters[i]), st.score)
             THEN [best |-> clusters[i], score |-> overlap(self, clusters[i])]
             ELSE st)

identifySnakeCluster(self, clusters) ==
    IF Len(clusters) = 0 THEN NoCluster
    ELSE IF Cardinality(self.prevSnakeKeys) > 0 THEN
        bestByOverlap(self, clusters, 1, [best |-> NoCluster, score |-> -1])
    ELSE LET byCenter == FirstIndex(clusters, LAMBDA c :
                             \E k \in 1..Len(c.cells) : sameCell(c.cells[k], self.startCell))
         IN IF byCenter # 0 THEN clusters[byCenter]
            ELSE clusters[FirstIndex(clusters, LAMBDA c : \A k \in 1..Len(clusters) :
                                         Len(c.cells) >= Len(clusters[k].cells))]

pickFoodCell(cluster, metrics) ==
    IF cluster = NoCluster THEN null
    ELSE cluster.cells[FirstIndex(cluster.cells, LAMBDA c : \A j \in 1..Len(cluster.cells) :
                                      metrics[c].value >= metrics[cluster.cells[j]].value)]

\* The sum of clusterBrightness (lines 425-428): the sum over the cells i..j
\* is the sum over the first half of them plus the sum over the rest.
total(cluster, metrics) ==
    LET RECURSIVE sum(_, _)
        sum(i, j) == IF i > j THEN 0
                     ELSE IF i = j THEN metrics[cluster.cells[i]].value
                     ELSE sum(i, (i + j) \div 2) + sum((i + j) \div 2 + 1, j)
    IN sum(1, Len(cluster.cells))

\* clusterBrightness returns the double nearest to t / n (line 429).  For a
\* mean in [2^e, 2^(e + 1)) the doubles are the multiples of 2^(e - 52); the
\* mean of bright cells is at least 1 and a brightness is at most 255.
exponentOfMean(t, n) == CHOOSE e \in 0..7 : 2^e * n <= t /\ t < 2^(e + 1) * n

\* 2^j modulo n, by halving j.
RECURSIVE powerOfTwoMod(_, _)
powerOfTwoMod(j, n) ==
    IF j = 0 THEN 1 % n
    ELSE CHOOSE p \in {(h * h * (IF j % 2 = 1 THEN 2 ELSE 1)) % n :
                          h \in {powerOfTwoMod(j \div 2, n)}} : TRUE

\* What the rounding of t / n to a double adds to it, in units of
\* 1 / (n * 2^(52 - e)): t * 2^(52 - e) = q * n + r, and the double is q or,
\* when r / n is above a half or is a half and q is odd, q + 1.
roundingOfMean(t, n) ==
    LET j == 52 - exponentOfMean(t, n)
        r == ((t % n) * powerOfTwoMod(j, n)) % n
        qIsEven == ((t % (2 * n)) * powerOfTwoMod(j, 2 * n)) % (2 * n) < n
    IN IF 2 * r < n \/ (2 * r = n /\ qIsEven) THEN -r ELSE n - r

\* Two means that are exactly a thousandth apart, th / nh the larger: the
\* doubles are further apart than the means when the rounding adds more to
\* the larger mean than to the smaller.  Their difference is computed
\* exactly, and no such difference lies between 0.001 and the double 1e-3.
roundedApart(th, nh, tl, nl) ==
    roundingOfMean(th, nh) * nl * 2^(exponentOfMean(th, nh) - exponentOfMean(tl, nl))
        > roundingOfMean(tl, nl) * nh

\* Line 291, Math.abs(clusterScore - bestScore) > 1e-3, on the totals and
\* the numbers of cells: the means are compared through their cross
\* products, where the rounding of the doubles decides only when the means
\* are exactly a thousandth apart.
differsByMoreThanEpsilon(tb, nb, tc, nc) ==
    IF Abs(tc * nb - tb * nc) * 1000 # nb * nc
    THEN Abs(tc * nb - tb * nc) * 1000 > nb * nc
    ELSE IF tc * nb > tb * nc THEN roundedApart(tc, nc, tb, nb)
    ELSE roundedApart(tb, nb, tc, nc)

\* The reducer of lines 287-295: the better of best and cluster.
betterFoodKeepsFirst(best, cluster, metrics) ==
    IF best = NoCluster THEN cluster ELSE best

betterFood(best, cluster, metrics) ==
    IF best = NoCluster THEN cluster
    ELSE LET tb == total(best, metrics)
             tc == total(cluster, metrics)
         IN IF differsByMoreThanEpsilon(tb, Len(best.cells), tc, Len(cluster.cells))
            THEN (IF tc * Len(best.cells) > tb * Len(cluster.cells) THEN cluster ELSE best)
            ELSE (IF Len(cluster.cells) < Len(best.cells) THEN cluster ELSE best)

RECURSIVE reduceFood(_, _, _, _)
reduceFood(remaining, i, best, metrics) ==
    IF i > Len(remaining) THEN best
    ELSE reduceFood(remaining, i + 1, betterFood(best, remaining[i], metrics), metrics)

\* Array.prototype.sort by descending value; the sort is stable.
SortByValueDesc(cells, metrics) ==
    LET rank(i) == Cardinality({j \in 1..Len(cells) :
                       \/ metrics[cells[j]].value > metrics[cells[i]].value
                       \/ (metrics[cells[j]].value = metrics[cells[i]].value /\ j < i)}) + 1
    IN [k \in 1..Len(cells) |-> cells[CHOOSE i \in 1..Len(cells) : rank(i) = k]]

\* Lines 453-461: the first occurrence of each cell, at most maxKeep cells.
firstOccurrences(cells, maxKeep) ==
    LET firsts == SelectSeq([i \in 1..Len(cells) |-> <<i, cells[i]>>],
                            LAMBDA p : \A j \in 1..(p[1] - 1) : cells[j] # p[2])
        kept == IF Len(firsts) > maxKeep THEN SubSeq(firsts, 1, maxKeep) ELSE firsts
    IN [i \in 1..Len(kept) |-> kept[i][2]]

\* Line 449: the test that keeps the cell at index i of the slice.
retainsStrict(value, dynamicThreshold, i, expectedLen) ==
    value > dynamicThreshold \/ i < expectedLen

retains(value, dynamicThreshold, i, expectedLen) ==
    value >= dynamicThreshold \/ i < expectedLen

refineSnakeCluster(self, cluster, metrics, expectedLen) ==
    IF cluster = NoCluster THEN NoCluster
    ELSE LET enriched == SortByValueDesc(cluster.cells, metrics)
             maxKeep == Max(expectedLen + 6, Min(Len(enriched), expectedLen * 2))
             slice == SubSeq(enriched, 1, Min(maxKeep, Len(enriched)))
             cutoffIndex == Min(expectedLen - 1, Len(slice) - 1)
             dynamicThreshold == Max(self.valueThreshold, metrics[slice[cutoffIndex + 1]].value)
             filtered == SelectSeq([i \in 1..Len(slice) |-> <<i, slice[i]>>],
                             LAMBDA p : retains(metrics[p[2]].value, dynamicThreshold,
                                                p[1] - 1, expectedLen))
             unique == firstOccurrences([i \in 1..Len(filtered) |-> filtered[i][2]], maxKeep)
         IN ClusterOf(unique)

\* analyzeBoard returns a state (or NoState) and writes prevSnake and
\* prevFood: the result is [self, state].  score is what getScore() reads.
\* Lines 298-310: the fields written and the state returned.
withFood(self, snake, food) ==
    [self  |-> [self EXCEPT !.prevSnake = snake.body,
                            !.prevFood = IF food # null THEN food ELSE @],
     state |-> [head |-> snake.head, tail |-> snake.tail,
                body |-> snake.body, food |-> food]]

\* Lines 284-296: no snake, no state; else the food among the other clusters.
fromSnake(self, metrics, clusters, snakeCluster, snake) ==
    IF snake = NoSnake THEN [self |-> self, state |-> NoState]
    ELSE withFood(self, snake,
             pickFoodCell(reduceFood(SelectSeq(clusters, LAMBDA c : c # snakeCluster),
                                     1, NoCluster, metrics),
                          metrics))

\* Lines 280-283.
fromSnakeCluster(self, metrics, expectedLen, clusters, snakeCluster) ==
    IF snakeCluster = NoCluster THEN [self |-> self, state |-> NoState]
    ELSE fromSnake(self, metrics, clusters, snakeCluster,
             reconstructSnake(self,
                              refineSnakeCluster(self, snakeCluster, metrics, expectedLen),
                              metrics, expectedLen))

\* Lines 277-279.
fromClusters(self, metrics, expectedLen, clusters) ==
    IF Len(clusters) = 0 THEN [self |-> self, state |-> NoState]
    ELSE fromSnakeCluster(self, metrics, expectedLen, clusters,
                          identifySnakeCluster(self, clusters))

analyzeBoard(self, metrics, score) ==
    IF \A c \in CellsOf(self.grid) : ~metrics[c].bright
    THEN [self |-> self, state |-> NoState]
    ELSE fromClusters(self, metrics, Max(1, score + 1), buildClusters(self, metrics))

(***************************************************************************)
(* The game the bot plays.  Its engine is not in the sources; what is      *)
(* modelled is its interface: overlays, the `playing' class, the score     *)
(* text, the canvas, the reaction to clicks and to keydown events.         *)
(***************************************************************************)
Centre(g) == Cell(g \div 2, g \div 2)

StartScreen(g) ==
    [grid |-> g, phase |-> "start", snake |-> <<Centre(g)>>, dir |-> [x |-> 1, y |-> 0],
     heading |-> [x |-> 1, y |-> 0], food |-> null, score |-> 0, seen |-> TRUE,
     blanks |-> 0]

\* startBtn.click() and againBtn.click(): a new game, food at f.
NewGame(g, f) ==
    [StartScreen(g) EXCEPT !.phase = "playing", !.food = f]

\* The engine's keydown listener: an arrow key turns the snake, a turn
\* straight back into a snake longer than one cell is ignored.
KeyDown(gm, key) ==
    LET d == DIRS[CHOOSE i \in 1..4 : DIRS[i].key = key]
    IN IF Len(gm.snake) > 1 /\ d.dx = -gm.heading.x /\ d.dy = -gm.heading.y
       THEN gm
       ELSE [gm EXCEPT !.dir = [x |-> d.dx, y |-> d.dy]]

\* One step of the engine: the snake advances one cell, eats, or dies.
Advance(gm, f) ==
    LET head == gm.snake[1]
        nh == Cell(head.x + gm.dir.x, head.y + gm.dir.y)
        eats == nh = gm.food
        moved == [gm EXCEPT !.heading = gm.dir, !.seen = FALSE]
        solid == IF eats THEN gm.snake ELSE SubSeq(gm.snake, 1, Len(gm.snake) - 1)
    IN IF nh.x < 0 \/ nh.y < 0 \/ nh.x >= gm.grid \/ nh.y >= gm.grid \/ nh \in Range(solid)
       THEN [moved EXCEPT !.phase = "over"]
       ELSE IF eats
       THEN [moved EXCEPT !.snake = <<nh>> \o gm.snake,
                          !.score = gm.score + 1,
                          !.food = IF gm.score + 1 >= TickMaxScore THEN null ELSE f]
       ELSE [moved EXCEPT !.snake = <<nh>> \o SubSeq(gm.snake, 1, Len(gm.snake) - 1)]

FoodSample == Sample(120, 255)

\* The canvas as sampleCell reads it: snake cells bright, the food dimmer;
\* a blank frame shows nothing.
Render(gm, blank) ==
    [c \in CellsOf(gm.grid) |->
        IF blank THEN DarkSample
        ELSE IF c \in Range(gm.snake) THEN LitSample
        ELSE IF c = gm.food THEN FoodSample
        ELSE DarkSample]

(***************************************************************************)
(* update() and the methods only it calls.                                 *)
(***************************************************************************)
resetStateKeepsPlan(self, score) ==
    [self EXCEPT !.prevSnakeKeys = {}, !.prevHead = null,
                 !.prevSnake = <<>>,
                 !.prevFood = null, !.lastScore = score,
                 !.currentDir = [x |-> 1, y |-> 0], !.lastBodyLength = 1]

\* Lines 91-100 and 104-113: the cross-tick state of a new game.
resetState(self, score) ==
    [self EXCEPT !.prevSnakeKeys = {}, !.prevHead = null, !.expectedHead = null,
                 !.commandPending = FALSE, !.plan = <<>>, !.prevSnake = <<>>,
                 !.prevFood = null, !.lastScore = score,
                 !.currentDir = [x |-> 1, y |-> 0], !.lastBodyLength = 1]

\* The result is [self, game, reset]; f is where the new game puts its food.
ensureGameRunning(self, gm, f) ==
    LET g1 == IF gm.phase = "start" THEN NewGame(gm.grid, f) ELSE gm
        s1 == IF gm.phase = "start" THEN resetState(self, g1.score) ELSE self
        g2 == IF g1.phase = "over" THEN NewGame(g1.grid, f) ELSE g1
        s2 == IF g1.phase = "over" THEN resetState(s1, g2.score) ELSE s1
    IN [self |-> s2, game |-> g2, reset |-> gm.phase \in {"start", "over"}]

\* Lines 131-150: no observation, the previous body stands in.
extrapolateKeepsTail(self, grewThisTick) ==
    IF Len(self.prevSnake) = 0 THEN [self |-> self, state |-> NoState]
    ELSE LET simulated == <<self.expectedHead>> \o self.prevSnake
             s1 == IF self.expectedHead # null
                   THEN [self EXCEPT !.prevSnake = simulated,
                                     !.prevSnakeKeys = {coordKey(c) : c \in Range(simulated)},
                                     !.prevHead = simulated[1],
                                     !.commandPending = FALSE,
                                     !.expectedHead = null]
                   ELSE self
         IN [self |-> s1, state |-> StateOf(s1.prevSnake, s1.prevFood)]

extrapolate(self, grewThisTick) ==
    IF Len(self.prevSnake) = 0 THEN [self |-> self, state |-> NoState]
    ELSE LET unshifted == <<self.expectedHead>> \o self.prevSnake
             simulated == IF ~grewThisTick /\ Len(unshifted) > 1
                          THEN SubSeq(unshifted, 1, Len(unshifted) - 1)
                          ELSE unshifted
             s1 == IF self.expectedHead # null
                   THEN [self EXCEPT !.prevSnake = simulated,
                                     !.prevSnakeKeys = {coordKey(c) : c \in Range(simulated)},
                                     !.prevHead = simulated[1],
                                     !.commandPending = FALSE,
                                     !.expectedHead = null]
                   ELSE self
         IN [self |-> s1, state |-> StateOf(s1.prevSnake, s1.prevFood)]

\* Lines 159-166: the turn away from a wall the snake is about to hit.
emergencyTurn(self, state) ==
    IF Len(self.plan) = 0 /\ shouldAvoidWall(self, state)
    THEN LET turn == chooseSafeDirection(self, state, perpendicularDirs(self))
         IN IF turn # NoMove
            THEN [self EXCEPT !.plan = <<turn>>, !.commandPending = FALSE]
            ELSE self
    ELSE self

\* Lines 168-177: which of the three cases the observed head falls in.
syncCase(self, state) ==
    IF self.expectedHead # null /\ sameCell(state.head, self.expectedHead) THEN "confirm"
    ELSE IF self.prevHead = null \/ ~sameCell(state.head, self.prevHead) THEN "desync"
    ELSE "stale"

syncHeadKeepsPlan(self, state) ==
    IF syncCase(self, state) = "stale" THEN self
    ELSE [self EXCEPT !.commandPending = FALSE, !.prevHead = state.head,
                      !.expectedHead = null]

syncHeadKeepsPending(self, state) ==
    IF syncCase(self, state) = "confirm"
    THEN [self EXCEPT !.commandPending = FALSE, !.prevHead = state.head,
                      !.expectedHead = null]
    ELSE IF syncCase(self, state) = "desync"
    THEN [self EXCEPT !.prevHead = state.head, !.plan = <<>>, !.expectedHead = null]
    ELSE self

syncHead(self, state) ==
    IF syncCase(self, state) = "confirm"
    THEN [self EXCEPT !.commandPending = FALSE, !.prevHead = state.head,
                      !.expectedHead = null]
    ELSE IF syncCase(self, state) = "desync"
    THEN [self EXCEPT !.prevHead = state.head, !.commandPending = FALSE,
                      !.plan = <<>>, !.expectedHead = null]
    ELSE self

sendDirectionAlways(self, dir) == TRUE

sendDirection(self, dir) ==
    ~(self.lastBodyLength > 1
      /\ dir.dx = -self.currentDir.x /\ dir.dy = -self.currentDir.y)

\* Lines 185-201: the result is [self, keys], keys the keydown events sent.
dispatchWhilePending(self, state) ==
    IF Len(self.plan) = 0 THEN [self |-> self, keys |-> <<>>]
    ELSE LET nextDir == Head(self.plan)
             s1 == [self EXCEPT !.plan = Tail(self.plan)]
         IN IF sendDirection(s1, nextDir)
            THEN [self |-> [s1 EXCEPT !.commandPending = TRUE,
                                      !.expectedHead = Cell(state.head.x + nextDir.dx,
                                                            state.head.y + nextDir.dy)],
                  keys |-> <<nextDir.key>>]
            ELSE [self |-> s1, keys |-> <<>>]

dispatch(self, state) ==
    IF Len(self.plan) = 0 \/ self.commandPending THEN [self |-> self, keys |-> <<>>]
    ELSE LET nextDir == Head(self.plan)
             s1 == [self EXCEPT !.plan = Tail(self.plan)]
         IN IF sendDirection(s1, nextDir)
            THEN [self |-> [s1 EXCEPT !.commandPending = TRUE,
                                      !.expectedHead = Cell(state.head.x + nextDir.dx,
                                                            state.head.y + nextDir.dy)],
                  keys |-> <<nextDir.key>>]
            ELSE [self |-> s1, keys |-> <<>>]

\* What a tick that did nothing leaves in the log.
IdleLog ==
    [reset |-> FALSE, observed |-> FALSE, hasState |-> FALSE, head |-> null,
     body |-> <<>>,
     planAtStart |-> <<>>, pendingAtStart |-> FALSE, expectedAtStart |-> null,
     expectedAtSync |-> null, prevHeadAtSync |-> null, planAtSync |-> <<>>,
     case |-> "",
     planAfterSync |-> <<>>, pendingAfterSync |-> FALSE, expectedAfterSync |-> null,
     emergency |-> FALSE, assumed |-> FALSE, replanned |-> FALSE, planned |-> <<>>,
     keys |-> <<>>,
     awaited |-> null, awaitedBefore |-> null,
     overridden |-> FALSE, overriddenBefore |-> FALSE]

\* update() in a frame: f is where a game started by a click puts its food,
\* blank tells that the canvas shows nothing.  The key event reaches the
\* engine's listener inside dispatchEvent.  log records what the tick saw and
\* did: the fields AtStart are those of the bot when the tick begins, the
\* fields AtSync those line 168 reads, after the emergency turn, the fields
\* AfterSync those line 177 leaves; awaited is the cell predicted for the last move dispatched and
\* neither confirmed by an observation nor given up in the desynchronization
\* branch or a reset; overridden tells that, since that move, a tick took
\* the emergency turn or assumed the move made without seeing it.
update(f, blank) ==
    \E run \in {ensureGameRunning(bot, game, f)} :
    \E g1 \in {[run.game EXCEPT !.seen = TRUE, !.blanks = IF blank THEN @ + 1 ELSE @]} :
    \E waits \in {IF run.reset THEN null ELSE log.awaited} :
    \E over \in {IF run.reset THEN FALSE ELSE log.overridden} :
    \E base \in {[IdleLog EXCEPT !.reset = run.reset, !.awaited = waits,
                                 !.awaitedBefore = waits, !.overridden = over,
                                 !.overriddenBefore = over]} :
    IF g1.phase # "playing"
    THEN bot' = run.self /\ game' = g1 /\ log' = base
    ELSE
    \E grewThisTick \in {g1.score > run.self.lastScore} :
    \E s1 \in {[run.self EXCEPT !.prevFood = IF grewThisTick THEN null ELSE @,
                                !.lastScore = g1.score]} :
    \E seen \in {analyzeBoard(s1, Render(g1, blank), g1.score)} :
    \E observed \in {seen.state # NoState} :
    \E s2 \in {IF observed THEN seen ELSE extrapolate(seen.self, grewThisTick)} :
    \E assumed \in {~observed /\ Len(seen.self.prevSnake) > 0
                    /\ seen.self.expectedHead # null} :
    \E state \in {s2.state} :
    IF state = NoState
    THEN bot' = s2.self /\ game' = g1 /\ log' = base
    ELSE
    \E s3 \in {updateCurrentDir([s2.self EXCEPT !.lastBodyLength = Len(state.body)],
                                state)} :
    \E s4 \in {emergencyTurn(s3, state)} :
    \E s5 \in {syncHead(s4, state)} :
    \E s6 \in {[s5 EXCEPT !.prevSnakeKeys = {coordKey(c) : c \in Range(state.body)}]} :
    \E s7 \in {IF Len(s6.plan) = 0 THEN [s6 EXCEPT !.plan = planPath(s6, state)] ELSE s6} :
    \E sent \in {dispatch(s7, state)} :
    \E settled \in {(observed /\ sameCell(state.head, waits))
                    \/ syncCase(s4, state) = "desync"} :
        /\ bot' = sent.self
        /\ game' = IF Len(sent.keys) > 0 THEN KeyDown(g1, sent.keys[1]) ELSE g1
        /\ log' = [base EXCEPT
                     !.observed = observed, !.hasState = TRUE, !.head = state.head,
                     !.body = state.body,
                     !.planAtStart = bot.plan,
                     !.pendingAtStart = bot.commandPending,
                     !.expectedAtStart = bot.expectedHead,
                     !.expectedAtSync = s4.expectedHead,
                     !.prevHeadAtSync = s4.prevHead,
                     !.planAtSync = s4.plan,
                     !.case = syncCase(s4, state),
                     !.planAfterSync = s5.plan,
                     !.pendingAfterSync = s5.commandPending,
                     !.expectedAfterSync = s5.expectedHead,
                     !.emergency = s4 # s3,
                     !.assumed = assumed,
                     !.replanned = Len(s6.plan) = 0,
                     !.planned = s7.plan,
                     !.keys = sent.keys,
                     !.awaited = IF Len(sent.keys) > 0 THEN sent.self.expectedHead
                                 ELSE IF settled THEN null ELSE waits,
                     !.overridden = IF Len(sent.keys) > 0 \/ settled THEN FALSE
                                    ELSE over \/ assumed \/ s4 # s3]

(***************************************************************************)
(* The control loop: frames in which update() runs, the engine advancing   *)
(* the snake by at most one cell between two frames.                       *)
(***************************************************************************)
InitTick ==
    /\ bot = [NewBot(TickGrid, 0) EXCEPT !.running = TRUE]
    /\ game = StartScreen(TickGrid)
    /\ log = IdleLog
    /\ loop = <<>>
    /\ pc = "frame"
    /\ args = <<>>
    /\ ret = <<>>

FoodSpots(gm) == {c \in CellsOf(gm.grid) : c \notin Range(gm.snake) /\ c # Centre(gm.grid)}

\* Where the next food appears matters only when a game starts or the
\* snake eats; otherwise one spot stands for all.
AnySpot(gm) == CHOOSE c \in FoodSpots(gm) : TRUE
WillEat(gm) == Cell(gm.snake[1].x + gm.dir.x, gm.snake[1].y + gm.dir.y) = gm.food

Tick ==
    /\ pc = "frame"
    /\ bot.running
    /\ \E f \in FoodSpots(game), blank \in BOOLEAN :
          /\ game.phase = "playing" => f = AnySpot(game)
          /\ blank => game.phase = "playing" /\ game.blanks < TickMaxBlanks
          /\ update(f, blank)
    /\ UNCHANGED <<pc, args, ret, loop>>

GameStep ==
    /\ pc = "frame"
    /\ game.phase = "playing"
    /\ game.seen
    /\ \E f \in FoodSpots(game) :
          /\ WillEat(game) \/ f = AnySpot(game)
          /\ game' = Advance(game, f)
    /\ UNCHANGED <<bot, log, pc, args, ret, loop>>

NextTick == Tick \/ GameStep

SpecTick == InitTick /\ [][NextTick]_vars

(***************************************************************************)
(* Claims about the control loop.                                          *)
(***************************************************************************)
\* The last tick observed the head on the cell predicted for the move that
\* was still awaited when the tick began.
Reached == log.observed /\ sameCell(log.head, log.awaitedBefore)

\* The last tick sent a key while an earlier move was still awaited.
SentWhileAwaited == Len(log.keys) > 0 /\ log.awaitedBefore # null

\* C2 as stated: a tick sends at most one key, and sends one while an
\* earlier move is awaited only if the observed head has reached the cell
\* predicted for that move or the desynchronization branch was taken.
C2_Original ==
    /\ Len(log.keys) <= 1
    /\ SentWhileAwaited => (Reached \/ log.case = "desync")

\* C2, amended: a tick sends at most one key, and sends one while an
\* earlier move is awaited only if the head has reached the predicted cell,
\* the desynchronization branch was taken, or, in this tick or an earlier
\* one since that move was sent, the emergency wall turn was taken or the
\* move was assumed made because perception returned nothing.
C2_DispatchOnlyWhenSettledOrOverridden ==
    /\ Len(log.keys) <= 1
    /\ SentWhileAwaited =>
          \/ Reached
          \/ log.case = "desync"
          \/ log.emergency \/ log.assumed \/ log.overriddenBefore

\* A tick that sent a key over an awaited move: the head had not moved, and
\* the emergency wall turn was taken.
C2_Witness ==
    /\ SentWhileAwaited
    /\ ~Reached /\ log.case = "stale"
    /\ log.emergency

\* The last tick observed the head, a move was awaited, and the head is not
\* on the predicted cell.
Mismatch ==
    /\ log.observed
    /\ log.expectedAtSync # null
    /\ ~sameCell(log.head, log.expectedAtSync)

\* C10 as stated: in a tick where a command has been dispatched and the
\* observed head is not the predicted head, lines 168-177 leave the plan
\* empty and no command pending.
C10_Original ==
    Mismatch => (log.planAfterSync = <<>> /\ ~log.pendingAfterSync)

\* C10, amended: in a tick where a command has been dispatched and the
\* observed head is not the predicted head, lines 168-177 leave the plan
\* empty, no command pending and no predicted head, before planning and
\* dispatch, when the observed head is not the head recorded before
\* (prevHead) either.  When it is still that head, lines 168-177 change
\* nothing: the predicted head is the one the tick began with, and so are
\* the plan and the pending command unless the tick took the emergency wall
\* turn (lines 159-166), which finds the plan empty, puts one turn in it and
\* clears the pending command.
C10_MismatchClearsUnlessStale ==
    /\ (Mismatch /\ ~sameCell(log.head, log.prevHeadAtSync))
           => /\ log.case = "desync"
              /\ log.planAfterSync = <<>>
              /\ ~log.pendingAfterSync
              /\ log.expectedAfterSync = null
    /\ (Mismatch /\ sameCell(log.head, log.prevHeadAtSync))
           => /\ log.case = "stale"
              /\ log.expectedAfterSync = log.expectedAtStart
              /\ log.expectedAfterSync # null
              /\ ~log.emergency => /\ log.planAfterSync = log.planAtStart
                                   /\ log.pendingAfterSync = log.pendingAtStart
              /\ log.emergency => /\ log.planAtStart = <<>>
                                  /\ Len(log.planAfterSync) = 1
                                  /\ ~log.pendingAfterSync

\* The head has not moved since the command was dispatched: the tick keeps
\* the command pending, or takes the emergency turn.
StaleKept == Mismatch /\ log.case = "stale" /\ ~log.emergency /\ log.pendingAfterSync
StaleTurned == Mismatch /\ log.case = "stale" /\ log.emergency /\ log.pendingAtStart

\* A tick that found the head on neither cell while moves were still queued.
C10_Witness ==
    /\ Mismatch
    /\ log.prevHeadAtSync # null /\ ~sameCell(log.head, log.prevHeadAtSync)
    /\ Len(log.planAtSync) > 0
    /\ log.planAfterSync = <<>>

(***************************************************************************)
(* start(), stop() and the frame callback step.  update() may throw: the   *)
(* canvas read of analyzeBoard (getImageData) is where it does here.       *)
(***************************************************************************)
\* Lines 62-69: what step does, once update() has returned or thrown, to
\* running and to the number of scheduled callbacks.
afterUpdateRetries(running, callbacks, threw) ==
    [running |-> running, callbacks |-> callbacks + 1]

afterUpdate(running, callbacks, threw) ==
    IF threw THEN [running |-> FALSE, callbacks |-> callbacks]
    ELSE [running |-> running, callbacks |-> callbacks + 1]

\* update() up to the canvas read that throws: lines 118-128.
updateThrows(f) ==
    \E run \in {ensureGameRunning(bot, game, f)} :
        /\ run.game.phase = "playing"
        /\ bot' = [run.self EXCEPT
                      !.prevFood = IF run.game.score > run.self.lastScore THEN null ELSE @,
                      !.lastScore = run.game.score,
                      !.running = afterUpdate(TRUE, 0, TRUE).running]
        /\ game' = run.game
        /\ log' = log

InitLoop ==
    /\ bot = NewBot(TickGrid, 0)
    /\ game = StartScreen(TickGrid)
    /\ log = IdleLog
    /\ loop = [callbacks |-> 0, updates |-> 0, starts |-> 0, failed |-> FALSE,
               last |-> "", scheduled |-> 0, ranAfterFailure |-> FALSE]
    /\ pc = "frame"
    /\ args = <<>>
    /\ ret = <<>>

\* start(): nothing when already running, else running and one callback.
Start ==
    /\ loop.starts < LoopMaxStarts
    /\ bot' = [bot EXCEPT !.running = TRUE]
    /\ loop' = IF bot.running
               THEN [loop EXCEPT !.starts = @ + 1, !.last = "start", !.scheduled = 0]
               ELSE [loop EXCEPT !.starts = @ + 1, !.callbacks = @ + 1, !.failed = FALSE,
                                 !.last = "start", !.scheduled = 1]
    /\ UNCHANGED <<game, log, pc, args, ret>>

Stop ==
    /\ bot.running
    /\ bot' = [bot EXCEPT !.running = FALSE]
    /\ loop' = [loop EXCEPT !.last = "stop", !.scheduled = 0]
    /\ UNCHANGED <<game, log, pc, args, ret>>

\* A scheduled callback runs and finds running false.
StepIdle ==
    /\ loop.callbacks > 0
    /\ ~bot.running
    /\ loop' = [loop EXCEPT !.callbacks = @ - 1, !.last = "idle", !.scheduled = 0]
    /\ UNCHANGED <<bot, game, log, pc, args, ret>>

\* A scheduled callback runs update(), which returns.
StepRuns ==
    /\ loop.callbacks > 0
    /\ bot.running
    /\ loop.updates < LoopMaxUpdates
    /\ update(AnySpot(game), FALSE)
    /\ loop' = [loop EXCEPT
                  !.callbacks = afterUpdate(TRUE, @ - 1, FALSE).callbacks,
                  !.updates = @ + 1, !.last = "ran",
                  !.scheduled = afterUpdate(TRUE, 0, FALSE).callbacks,
                  !.ranAfterFailure = @ \/ loop.failed]
    /\ UNCHANGED <<pc, args, ret>>

\* A scheduled callback runs update(), which throws.
StepThrows ==
    /\ loop.callbacks > 0
    /\ bot.running
    /\ loop.updates < LoopMaxUpdates
    /\ updateThrows(AnySpot(game))
    /\ loop' = [loop EXCEPT
                  !.callbacks = afterUpdate(TRUE, @ - 1, TRUE).callbacks,
                  !.updates = @ + 1, !.last = "threw", !.failed = TRUE,
                  !.scheduled = afterUpdate(TRUE, 0, TRUE).callbacks,
                  !.ranAfterFailure = @ \/ loop.failed]
    /\ UNCHANGED <<pc, args, ret>>

NextLoop == Start \/ Stop \/ StepIdle \/ StepRuns \/ StepThrows \/ GameStep

SpecLoop == InitLoop /\ [][NextLoop]_vars

\* C11: when update() throws, step sets running to false and schedules no
\* callback; until start() is called again running stays false and no
\* update() is executed, whatever callbacks are still scheduled.
C11_ThrowHaltsLoop ==
    /\ loop.last = "threw" => (~bot.running /\ loop.scheduled = 0)
    /\ loop.failed => ~bot.running
    /\ ~loop.ranAfterFailure

\* C11's case: update() threw while a second callback was scheduled; that
\* callback has run since and found running false.
C11_Witness ==
    /\ loop.failed
    /\ loop.last = "idle"
    /\ loop.updates > 1

(***************************************************************************)
(* Lines 131-150 alone: a tick whose analyzeBoard returned null, for every *)
(* previous body, predicted head and growth flag of a small board.         *)
(***************************************************************************)
InitExtrapolate ==
    /\ NoTicks
    /\ pc = "extrapolate"
    /\ ret = [self |-> NewBot(RecGrid, 0), state |-> NoState]
    /\ \E prev \in SnakesUpTo(RecGrid, RecMaxLen) \cup {<<>>} :
       \E eh \in {null} \cup (IF prev = <<>> THEN {} ELSE NeighboursOf(RecGrid, prev[1])) :
       \E grew \in BOOLEAN, pending \in BOOLEAN, food \in {null, Cell(0, 0)} :
          /\ bot = [NewBot(RecGrid, Max(0, Len(prev) - 1)) EXCEPT
                       !.prevSnake = prev,
                       !.prevSnakeKeys = {coordKey(c) : c \in Range(prev)},
                       !.prevHead = IF prev = <<>> THEN null ELSE prev[1],
                       !.expectedHead = eh,
                       !.commandPending = pending,
                       !.prevFood = food]
          /\ args = [grewThisTick |-> grew]

CallExtrapolate ==
    /\ pc = "extrapolate"
    /\ ret' = extrapolate(bot, args.grewThisTick)
    /\ pc' = "done"
    /\ UNCHANGED <<bot, args, game, log, loop>>

NextExtrapolate == CallExtrapolate

SpecExtrapolate == InitExtrapolate /\ [][NextExtrapolate]_vars

\* prev without its last cell.
DropLast(seq) == SubSeq(seq, 1, Len(seq) - 1)

\* C12: with no observation, a previous body and a predicted head, the
\* tick's state is the predicted head followed by the previous body in
\* order, the last cell dropped unless the score increased in this tick;
\* commandPending and expectedHead are cleared.
C12_ExtrapolationAdvancesBody ==
    (pc = "done" /\ Len(bot.prevSnake) > 0 /\ bot.expectedHead # null) =>
        /\ ret.state.head = bot.expectedHead
        /\ ret.state.body = <<bot.expectedHead>> \o
                               (IF args.grewThisTick THEN bot.prevSnake
                                ELSE DropLast(bot.prevSnake))
        /\ ret.state.tail = ret.state.body[Len(ret.state.body)]
        /\ Len(ret.state.body) = Len(bot.prevSnake) + (IF args.grewThisTick THEN 1 ELSE 0)
        /\ ~ret.self.commandPending
        /\ ret.self.expectedHead = null

\* C12's case: a pending move on a three-cell body, no growth: the state is
\* the predicted head and the first two cells of the previous body.
C12_Witness ==
    /\ pc = "done"
    /\ Len(bot.prevSnake) = 3 /\ bot.expectedHead # null /\ bot.commandPending
    /\ ~args.grewThisTick
    /\ ret.state.body = <<bot.expectedHead, bot.prevSnake[1], bot.prevSnake[2]>>

\* C13: a tick with a snake state that reaches line 181 with an empty plan
\* and no pending command sends a key unless planPath returned nothing,
\* that is unless the food search, the tail chase and the safety heuristic
\* all failed.
C13_IdleOnlyWhenEveryFallbackFailed ==
    (log.hasState /\ log.planAfterSync = <<>> /\ ~log.pendingAfterSync
     /\ Len(log.keys) = 0)
        => log.planned = <<>>

(***************************************************************************)
(* identifySnakeCluster alone: the clusters of every brightness grid of a  *)
(* small board against the key set of every short previous body.           *)
(***************************************************************************)
InitIdentify ==
    /\ NoTicks
    /\ pc = "identifySnakeCluster"
    /\ ret = NoCluster
    /\ \E lit \in {l \in SUBSET CellsOf(IdentifyGrid) : Cardinality(l) <= IdentifyMaxLit} :
       \E keys \in {{coordKey(c) : c \in Range(prev)} :
                        prev \in SnakesUpTo(IdentifyGrid, 3) \cup {<<>>}} :
          /\ bot = [NewBot(IdentifyGrid, 0) EXCEPT !.prevSnakeKeys = keys]
          /\ args = [clusters |-> buildClusters(NewBot(IdentifyGrid, 0),
                                     [c \in CellsOf(IdentifyGrid) |->
                                         IF c \in lit THEN LitSample ELSE DarkSample])]

CallIdentifySnakeCluster ==
    /\ pc = "identifySnakeCluster"
    /\ ret' = identifySnakeCluster(bot, args.clusters)
    /\ pc' = "done"
    /\ UNCHANGED <<bot, args, game, log, loop>>

NextIdentify == CallIdentifySnakeCluster

SpecIdentify == InitIdentify /\ [][NextIdentify]_vars

\* How many cells of a cluster have their key in keys.
OverlapCount(cluster, keys) ==
    Cardinality({c \in Range(cluster.cells) : coordKey(c) \in keys})

\* The first index of clusters whose overlap with keys no cluster exceeds.
FirstLargestOverlap(clusters, keys) ==
    CHOOSE i \in 1..Len(clusters) :
        /\ \A j \in 1..Len(clusters) :
              OverlapCount(clusters[i], keys) >= OverlapCount(clusters[j], keys)
        /\ \A j \in 1..(i - 1) :
              OverlapCount(clusters[j], keys) < OverlapCount(clusters[i], keys)

\* C14: with a non-empty previous key set, identifySnakeCluster returns the
\* first cluster, in list order, among those of the largest overlap with the
\* key set, whatever the other fields of the bot are.
C14_FirstClusterOfLargestOverlap ==
    (pc = "done" /\ bot.prevSnakeKeys # {} /\ Len(args.clusters) > 0) =>
        ret = args.clusters[FirstLargestOverlap(args.clusters, bot.prevSnakeKeys)]

\* C14's case: two clusters share the largest overlap, one cell each, and
\* the first of them is returned although it is not the first of the list.
C14_Witness ==
    /\ pc = "done" /\ Len(args.clusters) >= 3
    /\ OverlapCount(args.clusters[1], bot.prevSnakeKeys) = 0
    /\ OverlapCount(args.clusters[2], bot.prevSnakeKeys) = 1
    /\ OverlapCount(args.clusters[3], bot.prevSnakeKeys) = 1
    /\ ret = args.clusters[2]

(***************************************************************************)
(* The search under a node cap: every body, target and mode of a small     *)
(* board, for every cap up to CapMax.  ret holds what the loop held when   *)
(* it returned.                                                            *)
(***************************************************************************)
NoOutcome == [isNull |-> TRUE, path |-> <<>>, stored |-> 0, expanded |-> 0, keys |-> 0]

InitNodeCap ==
    /\ NoTicks
    /\ pc = "findPath"
    /\ ret = NoOutcome
    /\ bot = NewBot(CapGrid, 0)
    /\ \E body \in SnakesUpTo(CapGrid, CapMaxLen) \cup {TrappedBody},
          target \in CellsOf(CapGrid), mode \in {"food", "tail"}, cap \in 1..CapMax :
          args = [body |-> body, target |-> target, mode |-> mode, cap |-> cap]

CallSearch ==
    /\ pc = "findPath"
    /\ ret' = searchFrom(bot, args.body, args.cap, args.target, args.mode)
    /\ pc' = "done"
    /\ UNCHANGED <<bot, args, game, log, loop>>

NextNodeCap == CallSearch

SpecNodeCap == InitNodeCap /\ [][NextNodeCap]_vars

\* The same search with the source's cap, which no search of a CapGrid board
\* comes near: the search without a cap.
Uncapped == searchFrom(bot, args.body, maxNodes, args.target, args.mode)

\* C15: the search returns after at most `cap' passes of its loop; it never
\* holds more than `cap' states and never expands more than `cap' of them; it
\* returns null exactly when no goal is among the states it reached within
\* the cap, that is when the search without a cap finds none or finds its
\* first goal at an index the cap excludes, and otherwise it returns the path
\* the search without a cap returns.
C15_SearchStaysWithinCap ==
    pc = "done" =>
        \A full \in {Uncapped} :
            /\ ret.stored <= args.cap
            /\ ret.expanded <= args.cap
            /\ ret.expanded <= ret.stored
            /\ ret.isNull => ret.expanded = Min(ret.stored, args.cap)
            /\ ret.isNull <=> (full.isNull \/ full.expanded >= args.cap)
            /\ ~ret.isNull => ret.path = full.path /\ ret.expanded < args.cap

\* The cap is hit before a reachable target is reached: the search fails
\* with the array full.
C15_Witness ==
    /\ pc = "done"
    /\ ret.isNull
    /\ args.cap > 1
    /\ ret.stored = args.cap /\ ret.expanded = args.cap
    /\ ~Uncapped.isNull

(***************************************************************************)
(* planPath as update() calls it (line 182).  The body is snake-shaped, or *)
(* any sequence of cells of the board and of cells an expected head can    *)
(* be.  reconstructSnake pads the walked body with cells of the previous   *)
(* body, unchecked (lines 547-553).  The expected head of lines 195-198 is *)
(* a head plus a move planned on an earlier tick and may lie off the       *)
(* board; the extrapolation of lines 132-143 puts it before the previous   *)
(* body, where it is the head the next move is counted from and, a tick    *)
(* later, a cell behind the head and a cell padding takes from.  The food  *)
(* is any cell of the board, the head's included, or none.  lastBodyLength *)
(* is the body's length (line 156) and the heading is what                 *)
(* updateCurrentDir leaves (line 157): head minus neck, and for a one-cell *)
(* body the heading of the constructor or an expected head minus a head of *)
(* an earlier or of this tick.                                             *)
(***************************************************************************)
RECURSIVE CellSeqs(_, _)
CellSeqs(cells, n) ==
    IF n = 1 THEN {<<c>> : c \in cells}
    ELSE UNION { {w \o <<c>> : c \in cells} : w \in CellSeqs(cells, n - 1) }

CellSeqsUpTo(cells, n) == UNION {CellSeqs(cells, k) : k \in 1..n}

\* The cells an expected head can be: one move from a cell of the board.
ExpectedHeads(g) ==
    {Cell(h.x + DIRS[i].dx, h.y + DIRS[i].dy) : h \in CellsOf(g), i \in 1..4}

\* The headings lines 224-227 can compute for a one-cell body: an expected
\* head minus a head.
HeadingsOf(g) ==
    {[x |-> 1, y |-> 0]}
        \cup {[x |-> e.x - h.x, y |-> e.y - h.y] : e \in ExpectedHeads(g), h \in CellsOf(g)}

\* The places of w whose cell lies off a board of side g.
OffBoard(g, w) == {i \in 1..Len(w) : w[i] \notin CellsOf(g)}

\* The sequences of at most n cells of the board and of expected heads, at
\* most ReplanMaxOff of the cells off the board.
PaddedBodies(g, n) ==
    {w \in CellSeqsUpTo(ExpectedHeads(g), n) :
        Cardinality(OffBoard(g, w)) <= ReplanMaxOff}

InitPlanPath ==
    /\ NoTicks
    /\ pc = "planPath"
    /\ ret = <<>>
    /\ \E body \in SnakesUpTo(ReplanGrid, ReplanMaxLen)
                       \cup PaddedBodies(ReplanGrid, ReplanMaxPadded),
          food \in CellsOf(ReplanGrid) \cup {null},
          heading \in HeadingsOf(ReplanGrid) :
          /\ Len(body) > 1 => heading = [x |-> 1, y |-> 0]
          /\ args = [state |-> StateOf(body, food)]
          /\ bot = updateCurrentDir(
                       [NewBot(ReplanGrid, Len(body) - 1)
                           EXCEPT !.lastBodyLength = Len(body), !.currentDir = heading],
                       StateOf(body, food))

CallPlanPath ==
    /\ pc = "planPath"
    /\ ret' = planPath(bot, args.state)
    /\ pc' = "done"
    /\ UNCHANGED <<bot, args, game, log, loop>>

NextPlanPath == CallPlanPath

SpecPlanPath == InitPlanPath /\ [][NextPlanPath]_vars

\* The two searches of planPath on the state handed to it, and the test
\* `path && path.length'.
FoodSearch ==
    IF args.state.food = null THEN NullPath
    ELSE findPath(bot, args.state.body, args.state.food, "food")

TailSearch ==
    findPath(bot, args.state.body, args.state.body[Len(args.state.body)], "tail")

HasMoves(path) == ~path.isNull /\ Len(path.path) > 0

\* C16 as stated: whenever the food search returns a path, the empty path of
\* a head already on the food included, planPath returns that path and
\* nothing from the tail chase or the safety heuristic.
C16_Original ==
    pc = "done" =>
        \A toFood \in {FoodSearch} :
            ~toFood.isNull => ret = toFood.path

\* C16: whenever the food search returns a path of at least one move,
\* planPath returns exactly that path; the tail chase's path is returned only
\* when the food search returned null or the empty path, or no food is
\* visible.
C16_FoodPathWithMovesIsUsed ==
    pc = "done" =>
        \A toFood \in {FoodSearch} : \A toTail \in {TailSearch} :
            /\ HasMoves(toFood) => ret = toFood.path
            /\ (~HasMoves(toFood) /\ HasMoves(toTail)) => ret = toTail.path
            /\ (HasMoves(toTail) /\ ret = toTail.path /\ ret # toFood.path)
                   => (args.state.food = null \/ toFood.isNull \/ toFood.path = <<>>)

\* Both searches succeed with different paths, and the food search's is
\* returned.
C16_Witness ==
    /\ pc = "done"
    /\ HasMoves(FoodSearch) /\ HasMoves(TailSearch)
    /\ FoodSearch.path # TailSearch.path
    /\ ret = FoodSearch.path

(***************************************************************************)
(* The tail-chasing search, on the inputs of SpecFindPath.                 *)
(***************************************************************************)
\* C17: every path findPath returns in tail mode has at least one move, and
\* replaying it from the start body puts the head on the target, which
\* planPath makes the cell of the tail at planning time; the start state is
\* not taken for the goal even when the head starts on the target.
C17_TailPathMovesOntoTarget ==
    (pc = "done" /\ args.mode = "tail" /\ ~ret.isNull) =>
        /\ Len(ret.path) >= 1
        /\ BodyAfterPath(args.body, ret.path, args.target, "tail")[1] = args.target

\* A two-cell body chasing its own tail cell: a path is returned and its
\* replay ends with the head where the tail was.
C17_Witness ==
    /\ pc = "done" /\ args.mode = "tail" /\ ~ret.isNull
    /\ Len(args.body) = 2 /\ args.target = args.body[2]
    /\ Len(ret.path) >= 1
    /\ BodyAfterPath(args.body, ret.path, args.target, "tail")[1] = args.body[2]

(***************************************************************************)
(* The single-step safety heuristic as planPath reaches it (line 578).     *)
(***************************************************************************)
ReachesHeuristic == ~HasMoves(FoodSearch) /\ ~HasMoves(TailSearch)

Perpendicular(self, dir) ==
    dir.dx * self.currentDir.x + dir.dy * self.currentDir.y = 0

\* C18: when planPath reaches the safety heuristic and a direction
\* perpendicular to the heading survives the reversal, off-grid and collision
\* checks, the one move planPath returns is perpendicular to the heading.
C18_HeuristicPrefersPerpendicular ==
    (pc = "done" /\ ReachesHeuristic
        /\ \E i \in 1..4 : /\ Perpendicular(bot, DIRS[i])
                           /\ survives(bot, args.state, DIRS[i])) =>
        (Len(ret) = 1 /\ Perpendicular(bot, ret[1]))

(***************************************************************************)
(* chooseSafeDirection, on the inputs of SpecSafeDir.                      *)
(***************************************************************************)
\* A direction passes the three checks: it is not the reverse of the heading
\* of a body of more than one cell, and the cell it leads to is on the grid
\* and is not a cell of the body other than the tail's.
PassesChecks(g, body, dir) ==
    /\ NonReversing(body, dir)
    /\ HeadAfter(body, dir) \in CellsOf(g)
    /\ \A i \in 1..(Len(body) - 1) : body[i] # HeadAfter(body, dir)

\* C19: a direction chooseSafeDirection returns leads to a cell of the grid
\* that is not a body cell other than the vacating tail cell, and
\* chooseSafeDirection returns null exactly when none of the four directions
\* passes the reversal, off-grid and collision checks.
C19_SafeDirectionIsSafe ==
    pc = "done" =>
        /\ ret # NoMove =>
               /\ ret \in Range(DIRS)
               /\ HeadAfter(args.body, ret) \in CellsOf(bot.grid)
               /\ HeadAfter(args.body, ret) \notin
                      {args.body[i] : i \in 1..(Len(args.body) - 1)}
        /\ ret = NoMove <=> \A i \in 1..4 : ~PassesChecks(bot.grid, args.body, DIRS[i])

\* The direction returned leads onto the tail cell of a body of four cells,
\* the only cell of the body a move may enter.
C19_Witness ==
    /\ pc = "done" /\ ret # NoMove
    /\ Len(args.body) = 4
    /\ HeadAfter(args.body, ret) = args.body[4]

(***************************************************************************)
(* refineSnakeCluster alone: a cluster of the first cells of the board in  *)
(* scan order, each as bright as the snake or as the food, and every       *)
(* expected length up to RefineMaxLen.                                     *)
(***************************************************************************)
InitRefine ==
    /\ NoTicks
    /\ pc = "refineSnakeCluster"
    /\ ret = NoCluster
    /\ bot = NewBot(RefineGrid, 0)
    /\ \E n \in 1..RefineMaxCells, expectedLen \in 1..RefineMaxLen :
       \E values \in [1..n -> {FoodSample, LitSample}] :
       \E cells \in {SubSeq(ScanOrder(RefineGrid, CellsOf(RefineGrid)), 1, n)} :
          args = [cluster |-> ClusterOf(cells),
                  metrics |-> [c \in CellsOf(RefineGrid) |->
                                  IF \E i \in 1..n : cells[i] = c
                                  THEN values[CHOOSE i \in 1..n : cells[i] = c]
                                  ELSE DarkSample],
                  expectedLen |-> expectedLen]

CallRefineSnakeCluster ==
    /\ pc = "refineSnakeCluster"
    /\ ret' = refineSnakeCluster(bot, args.cluster, args.metrics, args.expectedLen)
    /\ pc' = "done"
    /\ UNCHANGED <<bot, args, game, log, loop>>

NextRefine == CallRefineSnakeCluster

SpecRefine == InitRefine /\ [][NextRefine]_vars

\* The brightness of the i-th cell of the input cluster, its 0-based rank in
\* the order of decreasing brightness (equally bright cells in the cluster's
\* order), the length of the slice and the cutoff.
Brightness(i) == args.metrics[args.cluster.cells[i]].value
RankOf(i) ==
    Cardinality({j \in 1..Len(args.cluster.cells) :
                    \/ Brightness(j) > Brightness(i)
                    \/ (Brightness(j) = Brightness(i) /\ j < i)})
SliceLength ==
    Min(Len(args.cluster.cells),
        Max(args.expectedLen + 6, Min(Len(args.cluster.cells), 2 * args.expectedLen)))
Cutoff ==
    Max(bot.valueThreshold,
        Brightness(CHOOSE i \in 1..Len(args.cluster.cells) :
                       RankOf(i) = Min(args.expectedLen - 1, SliceLength - 1)))
KeptKeys == {coordKey(ret.cells[k]) : k \in 1..Len(ret.cells)}

\* C20 as stated: a cell of the slice is kept exactly when its brightness is
\* strictly above the cutoff or its rank is below expectedLength.
C20_Original ==
    pc = "done" =>
        \A i \in 1..Len(args.cluster.cells) :
            coordKey(args.cluster.cells[i]) \in KeptKeys
                <=> /\ RankOf(i) < SliceLength
                    /\ (Brightness(i) > Cutoff \/ RankOf(i) < args.expectedLen)

\* C20: a cell of the slice is kept exactly when its brightness is at least
\* the cutoff or its rank is below expectedLength; the refined cluster is a
\* subset of the input cluster, without repeats, and holds at least
\* min(clusterSize, expectedLength) cells.
C20_KeepsCellsAtOrAboveCutoff ==
    pc = "done" =>
        /\ \A i \in 1..Len(args.cluster.cells) :
               coordKey(args.cluster.cells[i]) \in KeptKeys
                   <=> /\ RankOf(i) < SliceLength
                       /\ (Brightness(i) >= Cutoff \/ RankOf(i) < args.expectedLen)
        /\ KeptKeys \subseteq args.cluster.set
        /\ ret.set = KeptKeys
        /\ Cardinality(KeptKeys) = Len(ret.cells)
        /\ Len(ret.cells) >= Min(Len(args.cluster.cells), args.expectedLen)

\* A cluster with more cells than expected where a cell past the expected
\* length is exactly as bright as the cutoff and is kept, and a dimmer one is
\* dropped.
C20_Witness ==
    /\ pc = "done"
    /\ \E i \in 1..Len(args.cluster.cells) :
          /\ RankOf(i) >= args.expectedLen /\ Brightness(i) = Cutoff
          /\ coordKey(args.cluster.cells[i]) \in KeptKeys
    /\ \E i \in 1..Len(args.cluster.cells) :
          /\ Brightness(i) < Cutoff
          /\ coordKey(args.cluster.cells[i]) \notin KeptKeys

(***************************************************************************)
(* The head reconstructSnake starts from, on the inputs of                 *)
(* SpecReconstruct.                                                        *)
(***************************************************************************)
ExpectedInCluster ==
    bot.expectedHead # null /\ coordKey(bot.expectedHead) \in args.cluster.set

\* C21: whenever expectedHead is a cell of the cluster, the body
\* reconstructSnake returns begins with expectedHead, whatever the previous
\* head, the endpoints of the cluster and the order of its cells.
C21_ExpectedHeadComesFirst ==
    (pc = "done" /\ ret # NoSnake /\ ExpectedInCluster) =>
        (ret.body[1] = bot.expectedHead /\ ret.head = bot.expectedHead)

\* The expected head is in the cluster, it is neither the first cell of the
\* cluster next to the previous head nor an endpoint of the cluster, and the
\* returned body begins with it.
C21_Witness ==
    /\ pc = "done" /\ ret # NoSnake /\ ExpectedInCluster
    /\ ret.body[1] = bot.expectedHead
    /\ pickHeadIgnoringExpected(bot, args.cluster.cells, args.cluster.set) # bot.expectedHead
    /\ Len(getNeighbors(bot, bot.expectedHead, args.cluster.set)) >= 2

(***************************************************************************)
(* The greedy walk alone: every set of up to WalkMaxCells cells of the     *)
(* board (lines, blocks, rings, scattered cells), from every cell of the   *)
(* set (pickHead only returns cells of the cluster).                       *)
(***************************************************************************)
NoWalk == [aborted |-> FALSE, body |-> <<>>]

InitWalk ==
    /\ NoTicks
    /\ pc = "walk"
    /\ ret = NoWalk
    /\ bot = NewBot(WalkGrid, 0)
    /\ \E cellSet \in {S \in SUBSET CellsOf(WalkGrid) :
                          S # {} /\ Cardinality(S) <= WalkMaxCells} :
       \E head \in cellSet :
          args = [cluster |-> ClusterOf(ScanOrder(WalkGrid, cellSet)), head |-> head]

CallWalk ==
    /\ pc = "walk"
    /\ ret' = walk(bot, args.cluster.set, args.head, null, <<>>, {})
    /\ pc' = "done"
    /\ UNCHANGED <<bot, args, game, log, loop>>

NextWalk == CallWalk

SpecWalk == InitWalk /\ [][NextWalk]_vars

\* C22: the walk ends without the loop guard aborting it; it starts on the
\* head, visits only cells of the cluster, visits no cell twice and moves
\* only between 4-adjacent cells, so the walked body has no more cells than
\* the cluster.
C22_WalkIsASimplePathInTheCluster ==
    pc = "done" =>
        /\ ~ret.aborted
        /\ Len(ret.body) >= 1 /\ ret.body[1] = args.head
        /\ \A i \in 1..Len(ret.body) : coordKey(ret.body[i]) \in args.cluster.set
        /\ \A i, j \in 1..Len(ret.body) : i # j => ret.body[i] # ret.body[j]
        /\ \A i \in 1..(Len(ret.body) - 1) : manhattan(ret.body[i], ret.body[i + 1]) = 1
        /\ Len(ret.body) <= Cardinality(args.cluster.set)

\* The walk on a 2 x 2 block: it goes round the four cells and stops next to
\* the cell it started on.
C22_Witness ==
    /\ pc = "done" /\ ~ret.aborted
    /\ args.cluster.set = {coordKey(Cell(0, 0)), coordKey(Cell(1, 0)),
                           coordKey(Cell(0, 1)), coordKey(Cell(1, 1))}
    /\ Len(ret.body) = 4
    /\ manhattan(ret.body[4], ret.body[1]) = 1

(***************************************************************************)
(* The callbacks start() and step hand to requestAnimationFrame, in        *)
(* SpecLoop: loop.callbacks counts those scheduled and not yet run.        *)
(***************************************************************************)
\* C23: whatever the interleaving of start(), stop() and the callbacks, at
\* most one step callback is pending at any time.
C23_AtMostOneCallbackPending ==
    loop.callbacks <= 1

(***************************************************************************)
(* The food analyzeBoard reports, for a bot that has seen nothing yet      *)
(* (score 0): every board of FoodGrid with up to FoodMaxLit bright cells,  *)
(* each as bright as the snake or as the food, a board with two clusters   *)
(* of the same mean brightness beside the snake's, and one board of side   *)
(* NearTieGrid with two large clusters whose mean brightnesses differ by   *)
(* less than a thousandth, and two boards of side ExactTieGrid with two    *)
(* clusters whose mean brightnesses differ by a thousandth exactly.        *)
(***************************************************************************)
\* 33 cells: rows 0..2 and three cells of row 3; mean 100 + 32/33.
NearTieLarger ==
    {Cell(cx, cy) : cx \in 0..9, cy \in 0..2} \cup {Cell(cx, 3) : cx \in 0..2}
\* 32 cells: rows 7..9 and two cells of row 6; mean 100 + 31/32.
NearTieSmaller ==
    {Cell(cx, cy) : cx \in 0..9, cy \in 7..9} \cup {Cell(cx, 6) : cx \in 8..9}
NearTieBoard ==
    [c \in CellsOf(NearTieGrid) |->
        IF c = Centre(NearTieGrid) THEN LitSample
        ELSE IF c = Cell(0, 0) \/ c = Cell(9, 9) THEN Sample(100, 255)
        ELSE IF c \in NearTieLarger \cup NearTieSmaller THEN Sample(101, 255)
        ELSE DarkSample]

\* 8 cells in the corner, the first three a level brighter: mean level +
\* 0.375.  The cells that part them from the others and the centre from all.
ExactTieSmaller == {Cell(cx, cy) : cx \in 0..3, cy \in 10..11}
ExactTieGap ==
    {Cell(cx, 9) : cx \in 0..3} \cup {Cell(4, 10), Cell(4, 11)}
        \cup {Cell(5, 6), Cell(7, 6), Cell(6, 5), Cell(6, 7)}
\* 125 cells, the first 47 a level brighter: mean level + 0.376.
ExactTieLarger ==
    {Cell(cx, cy) : cx \in 0..11, cy \in 0..11}
        \ (ExactTieSmaller \cup ExactTieGap \cup {Cell(6, 6)})
ExactTieBrighter ==
    {Cell(cx, cy) : cx \in 0..11, cy \in 0..2} \cup {Cell(cx, 3) : cx \in 0..10}
        \cup {Cell(cx, 10) : cx \in 0..2}
\* The double of level + 0.376 is below it for the first level and above it
\* for the second; the double of level + 0.375 is exact.
ExactTieLevels == {33, 64}
ExactTieBoard(level) ==
    [c \in CellsOf(ExactTieGrid) |->
        IF c = Cell(6, 6) THEN LitSample
        ELSE IF c \in ExactTieBrighter THEN Sample(level + 1, 255)
        ELSE IF c \in ExactTieLarger \cup ExactTieSmaller THEN Sample(level, 255)
        ELSE DarkSample]

\* Three clusters of equally bright cells, of two, two and one cells.
TieBoard ==
    [c \in CellsOf(FoodGrid) |->
        IF c \in {Cell(0, 0), Cell(1, 0), Cell(2, 1), Cell(2, 2), Cell(0, 2)}
        THEN LitSample ELSE DarkSample]

InitFood ==
    /\ NoTicks
    /\ pc = "analyzeBoard"
    /\ ret = NoState
    /\ \/ /\ bot = NewBot(FoodGrid, 0)
          /\ \E lit \in {S \in SUBSET CellsOf(FoodGrid) :
                            S # {} /\ Cardinality(S) <= FoodMaxLit} :
             \E dim \in SUBSET lit :
                args = [metrics |-> [c \in CellsOf(FoodGrid) |->
                                        IF c \in dim THEN FoodSample
                                        ELSE IF c \in lit THEN LitSample
                                        ELSE DarkSample]]
       \/ /\ bot = NewBot(FoodGrid, 0)
          /\ args = [metrics |-> TieBoard]
       \/ /\ bot = NewBot(NearTieGrid, 0)
          /\ args = [metrics |-> NearTieBoard]
       \/ /\ bot = NewBot(ExactTieGrid, 0)
          /\ \E level \in ExactTieLevels : args = [metrics |-> ExactTieBoard(level)]

CallAnalyzeBoard ==
    /\ pc = "analyzeBoard"
    /\ \E seen \in {analyzeBoard(bot, args.metrics, 0)} :
          /\ bot' = seen.self
          /\ ret' = seen.state
    /\ pc' = "done"
    /\ UNCHANGED <<args, game, log, loop>>

NextFood == CallAnalyzeBoard

SpecFood == InitFood /\ [][NextFood]_vars

\* The clusters of the board other than the one taken for the snake, and
\* the comparison of two mean brightnesses (total / cells) by cross products.
Others(clusters, snakeCluster) ==
    {clusters[i] : i \in {j \in 1..Len(clusters) : clusters[j] # snakeCluster}}
Brighter(c, d) ==
    total(c, args.metrics) * Len(d.cells) > total(d, args.metrics) * Len(c.cells)
AsBright(c, d) ==
    total(c, args.metrics) * Len(d.cells) = total(d, args.metrics) * Len(c.cells)
\* The means of c and d are equal or differ by more than a thousandth.
Separated(c, d) ==
    \/ AsBright(c, d)
    \/ Abs(total(c, args.metrics) * Len(d.cells) - total(d, args.metrics) * Len(c.cells))
           * 1000 > Len(c.cells) * Len(d.cells)
\* food is the brightest cell of cluster c, and c is best among others:
\* none is brighter in the mean, none as bright has fewer cells.
BrightestCellOf(c, food) ==
    /\ \E k \in 1..Len(c.cells) : c.cells[k] = food
    /\ \A k \in 1..Len(c.cells) :
           args.metrics[c.cells[k]].value <= args.metrics[food].value
BestOf(others, c) ==
    \A d \in others :
        /\ ~Brighter(d, c)
        /\ AsBright(d, c) => Len(c.cells) <= Len(d.cells)
FoodIsBestOf(others, food) ==
    /\ food = null <=> others = {}
    /\ food # null => \E c \in others : BrightestCellOf(c, food) /\ BestOf(others, c)

\* C24 as stated: the food is null exactly when there is no cluster but the
\* snake's, and otherwise it is the brightest cell of a cluster of the
\* highest mean brightness, of the fewest cells among those.
C24_Original ==
    (pc = "done" /\ ret # NoState) =>
        \A clusters \in {buildClusters(bot, args.metrics)} :
            FoodIsBestOf(Others(clusters, identifySnakeCluster(bot, clusters)), ret.food)

\* C24: the same, where the mean brightnesses of the other clusters are
\* equal or differ by more than a thousandth; differences up to a thousandth
\* are treated as ties by the reducer.
C24_FoodIsBrightestOfBestCluster ==
    (pc = "done" /\ ret # NoState) =>
        \A clusters \in {buildClusters(bot, args.metrics)} :
        \A others \in {Others(clusters, identifySnakeCluster(bot, clusters))} :
            /\ ret.food = null <=> others = {}
            /\ (\A c, d \in others : Separated(c, d)) => FoodIsBestOf(others, ret.food)
            /\ ret.food # null => \E c \in others : BrightestCellOf(c, ret.food)

\* Two clusters beside the snake's, equally bright in the mean; the food is
\* in the one of fewer cells.
C24_Witness ==
    /\ pc = "done" /\ ret # NoState /\ ret.food # null
    /\ \E clusters \in {buildClusters(bot, args.metrics)} :
       \E others \in {Others(clusters, identifySnakeCluster(bot, clusters))} :
          /\ Cardinality(others) >= 2
          /\ \E c, d \in others :
                /\ c # d /\ AsBright(c, d) /\ Len(c.cells) < Len(d.cells)
                /\ BestOf(others, c) /\ BrightestCellOf(c, ret.food)

(***************************************************************************)
(* The length of the paths of findPath, on the calls planPath makes of it  *)
(* (lines 572 and 576) in SpecPlanPath: the food search on the visible     *)
(* food, the tail search on the last cell of the body.                     *)
(***************************************************************************)
\* The bodies k legal moves lead to from the bodies of `from', a body being
\* left as it is once it has eaten.
StepFrom(g, from, target, mode) ==
    UNION {{BodyAfter(b, DIRS[i], target, mode) :
               i \in {j \in 1..4 : LegalMove(g, b, DIRS[j], target, mode)}} : b \in from}
RECURSIVE AfterMoves(_, _, _, _, _)
AfterMoves(g, body, k, target, mode) ==
    IF k = 0 THEN {body}
    ELSE StepFrom(g, AfterMoves(g, body, k - 1, target, mode), target, mode)
\* Some sequence of exactly k legal moves brings the head to the target.  The
\* tail search does not test the body it starts from (line 597), so in tail
\* mode a sequence has one move at least.
ReachesIn(g, body, k, target, mode) ==
    /\ mode = "tail" => k >= 1
    /\ \E b \in AfterMoves(g, body, k, target, mode) : b[1] = target

\* No sequence of fewer legal moves than the path has brings the head to
\* the target.
Shortest(self, body, found, target, mode) ==
    ~found.isNull =>
        \A k \in 0..(Len(found.path) - 1) : ~ReachesIn(self.grid, body, k, target, mode)

\* C25: a path findPath returns is a shortest one, in the food search and in
\* the tail search of planPath: no sequence of fewer moves that stay on the
\* grid, avoid the non-vacating body and grow only on the food brings the
\* head from the start body to the target.
C25_ReturnedPathIsShortest ==
    pc = "done" =>
        /\ Shortest(bot, args.state.body, FoodSearch, args.state.food, "food")
        /\ Shortest(bot, args.state.body, TailSearch,
                    args.state.body[Len(args.state.body)], "tail")

\* A food path that has to go round the body, and a tail path of the same
\* body: the first is longer than the distance to the food, each is as long
\* as some sequence of legal moves to its target, and no shorter sequence
\* reaches it.
C25_Witness ==
    /\ pc = "done" /\ Len(args.state.body) = 4 /\ args.state.food # null
    /\ args.state.food \notin Range(args.state.body)
    /\ \E toFood \in {FoodSearch} : \E toTail \in {TailSearch} :
          /\ ~toFood.isNull /\ ~toTail.isNull
          /\ ret = toFood.path
          /\ Len(toFood.path) = manhattan(args.state.body[1], args.state.food) + 2
          /\ ReachesIn(bot.grid, args.state.body, Len(toFood.path), args.state.food, "food")
          /\ ReachesIn(bot.grid, args.state.body, Len(toTail.path), args.state.body[4], "tail")
          /\ Len(toTail.path) >= 2
          /\ Shortest(bot, args.state.body, toFood, args.state.food, "food")
          /\ Shortest(bot, args.state.body, toTail, args.state.body[4], "tail")

(***************************************************************************)
(* The key a tick sends, in SpecTick: log.body is the body of the tick's   *)
(* state, log.keys the key sent.                                           *)
(***************************************************************************)
DirOfKey(key) == DIRS[CHOOSE i \in 1..4 : DIRS[i].key = key]
SentDir == DirOfKey(log.keys[1])
SentFrom(n) == log.hasState /\ Len(log.keys) = 1 /\ Len(log.body) >= n

\* C26: in a tick whose state has a body of two cells or more, the direction
\* of the key sent is never the opposite of head minus neck.
C26_NeverSendsReversal ==
    SentFrom(2) =>
        ~(/\ SentDir.dx = -(log.body[1].x - log.body[2].x)
          /\ SentDir.dy = -(log.body[1].y - log.body[2].y))

\* A tick with a body of two cells or more sent a key that turns the snake.
C26_Witness ==
    /\ SentFrom(2)
    /\ manhattan(log.body[1], log.body[2]) = 1
    /\ SentDir.dx * (log.body[1].x - log.body[2].x)
         + SentDir.dy * (log.body[1].y - log.body[2].y) = 0

\* C27: the direction of the key a tick sends leads from the head of the
\* tick's state to a cell of the grid that is not a cell of the body other
\* than the tail's.
C27_SentMoveIsSafe ==
    SentFrom(1) =>
        /\ HeadAfter(log.body, SentDir) \in CellsOf(bot.grid)
        /\ \A i \in 1..(Len(log.body) - 1) : log.body[i] # HeadAfter(log.body, SentDir)

(***************************************************************************)
(* A tick on a board the engine has not advanced since the tick before.    *)
(***************************************************************************)
\* A step of update() that observes the board the previous tick observed:
\* the engine has not moved the snake in between (game.seen stays TRUE).
SameBoardTick ==
    /\ game.phase = "playing" /\ game.seen /\ log.observed
    /\ game'.phase = "playing" /\ game'.seen /\ log'.observed
    /\ game'.snake = game.snake /\ game'.score = game.score
    /\ game'.food = game.food

\* C28: when two consecutive ticks observe the same board and score and the
\* snake has at least two cells, the second tick reconstructs the head of
\* the first tick and does not take the desynchronization branch.
C28_StalledBoardKeepsHead ==
    [][(SameBoardTick /\ Len(log.body) >= 2)
          => (log'.head = log.head /\ log'.case # "desync")]_vars


(***************************************************************************)
(* The pending command and the cell it predicts.                           *)
(***************************************************************************)
\* C29: a step that ends with commandPending true ends with expectedHead
\* set; if a key was sent in the last tick, expectedHead is the cell next to
\* that tick's state head in the direction sent, otherwise the command was
\* already pending and expectedHead is the cell it had.
C29_PendingCommandHasItsCell ==
    [][bot'.commandPending =>
          /\ bot'.expectedHead # null
          /\ IF log'.hasState /\ Len(log'.keys) = 1
             THEN bot'.expectedHead = HeadAfter(log'.body, DirOfKey(log'.keys[1]))
             ELSE bot.commandPending /\ bot'.expectedHead = bot.expectedHead]_vars

\* A tick on an unchanged board left the command of an earlier tick pending.
C29_Witness ==
    /\ bot.commandPending
    /\ bot.expectedHead # null
    /\ log.hasState /\ log.case = "stale" /\ Len(log.keys) = 0
    /\ manhattan(bot.expectedHead, log.head) = 1


(***************************************************************************)
(* The reset a tick makes when it finds an overlay.                        *)
(***************************************************************************)
OverlayActive == game.phase \in {"start", "over"}

IsReset(self) ==
    /\ self.plan = <<>>
    /\ ~self.commandPending
    /\ self.expectedHead = null
    /\ self.prevHead = null
    /\ self.prevSnake = <<>>
    /\ self.prevFood = null
    /\ self.prevSnakeKeys = {}
    /\ self.currentDir = [x |-> 1, y |-> 0]
    /\ self.lastBodyLength = 1

\* C30: in every state where an overlay is active, ensureGameRunning leaves
\* the plan empty, commandPending false, expectedHead, prevHead, prevSnake
\* and prevFood null, prevSnakeKeys empty, the heading (1,0) and
\* lastBodyLength 1; and a tick that made the reset and went on to play
\* found no previous head and no expected head, assumed no move, waited for
\* no cell and planned anew.
C30_OverlayResetsCrossTickState ==
    /\ OverlayActive =>
          \A f \in FoodSpots(game) : IsReset(ensureGameRunning(bot, game, f).self)
    /\ (log.reset /\ log.hasState) =>
          /\ log.prevHeadAtSync = null
          /\ log.expectedAtSync = null
          /\ log.awaitedBefore = null
          /\ ~log.assumed
          /\ log.case = "desync"
          /\ log.replanned

\* The game is over and the bot still holds the finished game's plan,
\* pending command, predicted head and body.
C30_Witness ==
    /\ game.phase = "over"
    /\ bot.commandPending
    /\ bot.expectedHead # null
    /\ bot.prevHead # null
    /\ Len(bot.prevSnake) > 1
    /\ Len(bot.plan) > 0
    /\ bot.lastBodyLength > 1


(***************************************************************************)
(* SnakeQLearner (qbot.js): training and play.  DIRS, coordKey, sameCell   *)
(* and manhattan are the same there.  The value table enters only through  *)
(* chooseAction, whose random branch can return each of the three actions; *)
(* the table's contents, the learning rates, the score statistics written  *)
(* to the console and the saving of the table are left out.  Rewards are   *)
(* kept as the terms they are summed from.  observe() reads the canvas the *)
(* engine paints (Render), with the learner's own brightness test.         *)
(***************************************************************************)
TURN_ACTIONS == <<-1, 0, 1>>

NoDistance == -1
NoAction == -1
NoKey == coordKey(null)
NoDir == [dx |-> 0, dy |-> 0]
NoQState == [dFront |-> -1, dLeft |-> -1, dRight |-> -1, dir |-> -1,
             foodX |-> 0, foodY |-> 0]
NoObservation == [head |-> null, body |-> <<>>, dirVec |-> NoDir, food |-> null,
                  score |-> -1, foodDistance |-> NoDistance]

turnLeft(dir) ==
    IF dir.dx = 1 /\ dir.dy = 0 THEN [dx |-> 0, dy |-> -1]
    ELSE IF dir.dx = -1 /\ dir.dy = 0 THEN [dx |-> 0, dy |-> 1]
    ELSE IF dir.dx = 0 /\ dir.dy = 1 THEN [dx |-> 1, dy |-> 0]
    ELSE IF dir.dx = 0 /\ dir.dy = -1 THEN [dx |-> -1, dy |-> 0]
    ELSE [dx |-> 1, dy |-> 0]

turnRight(dir) ==
    IF dir.dx = 1 /\ dir.dy = 0 THEN [dx |-> 0, dy |-> 1]
    ELSE IF dir.dx = -1 /\ dir.dy = 0 THEN [dx |-> 0, dy |-> -1]
    ELSE IF dir.dx = 0 /\ dir.dy = 1 THEN [dx |-> -1, dy |-> 0]
    ELSE IF dir.dx = 0 /\ dir.dy = -1 THEN [dx |-> 1, dy |-> 0]
    ELSE [dx |-> 1, dy |-> 0]

\* The index in DIRS, counted from 0.
directionIndex(dir) ==
    IF dir.dx = 0 /\ dir.dy = -1 THEN 0
    ELSE IF dir.dx = 1 /\ dir.dy = 0 THEN 1
    ELSE IF dir.dx = 0 /\ dir.dy = 1 THEN 2
    ELSE IF dir.dx = -1 /\ dir.dy = 0 THEN 3
    ELSE 0

currentDirectionFromSnake(self, body) ==
    IF Len(body) < 2 THEN self.currentDir
    ELSE LET dx == body[1].x - body[2].x
             dy == body[1].y - body[2].y
         IN IF \E i \in 1..4 : DIRS[i].dx = dx /\ DIRS[i].dy = dy
            THEN [dx |-> dx, dy |-> dy]
            ELSE self.currentDir

\* Line 461: the brightness mark observe() puts on a sample.
learnerBright(sample) ==
    sample.value > learnerValueThreshold /\ sample.a > learnerAlphaThreshold

\* Lines 457-466: the samples of the canvas with the learner's marks.
learnerMetrics(canvas) ==
    [c \in DOMAIN canvas |-> [canvas[c] EXCEPT !.bright = learnerBright(canvas[c])]]

\* Lines 588-628: the text of SnakeBot's buildClusters, with GRID for grid.
learnerBuildClusters(self, metrics) == buildClusters([grid |-> self.GRID], metrics)

\* Lines 630-641: the largest cluster, the first of the largest.
learnerIdentifySnakeCluster(clusters) ==
    IF Len(clusters) = 0 THEN NoCluster
    ELSE clusters[FirstIndex(clusters, LAMBDA c : \A k \in 1..Len(clusters) :
                                 Len(c.cells) >= Len(clusters[k].cells))]

\* Lines 648-671 of reconstructSnake: the cell nearest to the head observed
\* before, or with none observed the brightest cell; the first of them.
learnerHead(self, cells, metrics) ==
    IF self.prevObservation.head # null
    THEN cells[FirstIndex(cells, LAMBDA c : \A j \in 1..Len(cells) :
                   manhattan(c, self.prevObservation.head)
                       <= manhattan(cells[j], self.prevObservation.head))]
    ELSE cells[FirstIndex(cells, LAMBDA c : \A j \in 1..Len(cells) :
                   metrics[c].value >= metrics[cells[j]].value)]

\* The neighbours the walk of reconstructSnake looks at, in its order.
learnerNeighbors(current) ==
    <<Cell(current.x + 1, current.y), Cell(current.x - 1, current.y),
      Cell(current.x, current.y + 1), Cell(current.x, current.y - 1)>>

\* Lines 679-701: `while (true)', from the last cell of body on.
RECURSIVE learnerWalk(_, _, _, _)
learnerWalk(cells, set, body, visited) ==
    LET neighbors == learnerNeighbors(body[Len(body)])
        i == FirstIndex(neighbors, LAMBDA candidate :
                 coordKey(candidate) \in set /\ coordKey(candidate) \notin visited)
    IN IF i = 0 THEN body
       ELSE IF Len(body) + 1 > Len(cells) + 2 THEN body \o <<neighbors[i]>>
       ELSE learnerWalk(cells, set, body \o <<neighbors[i]>>,
                        visited \cup {coordKey(neighbors[i])})

\* Lines 643-708; cluster is not null.
learnerReconstructSnake(self, cluster, metrics) ==
    LET head == learnerHead(self, cluster.cells, metrics)
        body == learnerWalk(cluster.cells, {coordKey(c) : c \in Range(cluster.cells)},
                            <<head>>, {coordKey(head)})
    IN [head |-> head, tail |-> body[Len(body)], body |-> body]

\* Lines 710-722.
learnerPickFoodCell(cluster, metrics) ==
    IF cluster = NoCluster THEN null
    ELSE cluster.cells[FirstIndex(cluster.cells, LAMBDA c :
             \A j \in 1..Len(cluster.cells) :
                 metrics[c].value >= metrics[cluster.cells[j]].value)]

\* Lines 480-492 of observe(): the observation made of the snake and the
\* food found on the canvas and of the score shown.
observation(self, snake, food, score) ==
    [head |-> snake.head, body |-> snake.body,
     dirVec |-> currentDirectionFromSnake(self, snake.body),
     food |-> food, score |-> score,
     foodDistance |-> IF food # null THEN manhattan(snake.head, food) ELSE NoDistance]

\* Lines 474-478: the snake is read from the largest cluster and the food
\* from the first of the other clusters.
observeClusters(self, metrics, clusters, snakeCluster, score) ==
    observation(self, learnerReconstructSnake(self, snakeCluster, metrics),
                learnerPickFoodCell(
                    IF \E i \in 1..Len(clusters) : clusters[i] # snakeCluster
                    THEN clusters[FirstIndex(clusters, LAMBDA c : c # snakeCluster)]
                    ELSE NoCluster,
                    metrics),
                score)

\* Lines 468-472.
observeMetrics(self, metrics, clusters, score) ==
    IF Len(clusters) = 0 THEN NoObservation
    ELSE observeClusters(self, metrics, clusters,
                         learnerIdentifySnakeCluster(clusters), score)

\* observe() on the canvas given, the score text showing score; NoObservation
\* is its null.
observe(self, canvas, score) ==
    IF \A c \in DOMAIN canvas : ~learnerBright(canvas[c]) THEN NoObservation
    ELSE observeMetrics(self, learnerMetrics(canvas),
                        learnerBuildClusters(self, learnerMetrics(canvas)), score)

Sign(n) == IF n > 0 THEN 1 ELSE IF n < 0 THEN -1 ELSE 0

danger(self, o, vec) ==
    LET nx == o.head.x + vec.dx
        ny == o.head.y + vec.dy
    IN IF nx < 0 \/ ny < 0 \/ nx >= self.GRID \/ ny >= self.GRID THEN 1
       ELSE IF Cell(nx, ny) \in Range(o.body) THEN 1 ELSE 0

\* The result is [self, state]: extractState sets currentDir.
extractState(self, o) ==
    LET forward == o.dirVec
        right == turnRight(o.dirVec)
        fx == o.food.x - o.head.x
        fy == o.food.y - o.head.y
    IN [self |-> [self EXCEPT !.currentDir = o.dirVec],
        state |-> [dFront |-> danger(self, o, forward),
                   dLeft |-> danger(self, o, turnLeft(o.dirVec)),
                   dRight |-> danger(self, o, right),
                   dir |-> directionIndex(o.dirVec),
                   foodX |-> IF o.food # null
                             THEN Sign(fx * right.dx + fy * right.dy) ELSE 0,
                   foodY |-> IF o.food # null
                             THEN Sign(fx * forward.dx + fy * forward.dy) ELSE 0]]

\* The reward as its terms: the step penalty in force, FOOD_REWARD times
\* food, DEATH_PENALTY if death, DIST_SHAPING times shaping.
computeReward(self, o, gameOver) ==
    [penalty |-> self.stepPenalty,
     food |-> Max(0, o.score - self.prevScore),
     death |-> gameOver,
     shaping |-> IF self.prevDistance # NoDistance /\ o.foodDistance # NoDistance
                 THEN Sign(self.prevDistance - o.foodDistance) ELSE 0]

\* A terminal reward handed to endEpisode: DEATH_PENALTY or the stall penalty.
Terminal(name) == [penalty |-> name, food |-> 0, death |-> FALSE, shaping |-> 0]

\* The result is [self, keys].
executeAction(self, action, o) ==
    LET targetDir == IF action = -1 THEN turnLeft(o.dirVec)
                     ELSE IF action = 1 THEN turnRight(o.dirVec)
                     ELSE o.dirVec
    IN IF targetDir = o.dirVec \/ ~\E i \in 1..4 : DIRS[i].dx = targetDir.dx
                                                    /\ DIRS[i].dy = targetDir.dy
       THEN [self |-> self, keys |-> <<>>]
       ELSE [self |-> [self EXCEPT !.currentDir = targetDir],
             keys |-> <<DIRS[CHOOSE i \in 1..4 : DIRS[i].dx = targetDir.dx
                                                  /\ DIRS[i].dy = targetDir.dy].key>>]

resetEpisodeStats(self) ==
    [self EXCEPT !.prevDistance = NoDistance, !.lastHeadKey = NoKey,
                 !.currentDir = [dx |-> 1, dy |-> 0], !.noProgressSteps = 0,
                 !.bestDistance = Infinity, !.currentEpisodeScore = 0]

\* The constructor, for a page that shows the score given.
NewLearner(g, score) ==
    [GRID |-> g, mode |-> "idle", running |-> FALSE,
     prevObservation |-> NoObservation, prevState |-> NoQState,
     prevActionIndex |-> NoAction, prevScore |-> score,
     prevDistance |-> NoDistance, lastHeadKey |-> NoKey,
     currentDir |-> [dx |-> 1, dy |-> 0], noProgressSteps |-> 0,
     bestDistance |-> Infinity, currentEpisodeScore |-> 0,
     noProgressLimit |-> 280, stallPenalty |-> "stall", stepPenalty |-> "play",
     episodeScores |-> <<>>, completedEpisodes |-> 0, targetEpisodes |-> 0]


\* The engine may or may not keep the `playing' class on the body while the
\* game-over overlay is shown: stays tells which.
isPlaying(gm, stays) == gm.phase = "playing" \/ (gm.phase = "over" /\ stays)
isGameOver(gm) == gm.phase = "over"

\* Lines 169-182 of resetGame(), up to the sleep: the button clicked starts
\* a new game at once, its food at f.
resetGameClicks(gm, stays, f) ==
    IF isGameOver(gm) THEN NewGame(gm.grid, f)
    ELSE IF ~isPlaying(gm, stays) THEN NewGame(gm.grid, f)
    ELSE NewGame(gm.grid, f)

resetGameKeepsPair(self, gm) ==
    resetEpisodeStats([self EXCEPT !.prevObservation = NoObservation,
                                   !.prevScore = gm.score])

\* Lines 183-187 of resetGame(): what runs when the sleep is over.
resetGameResumes(self, gm) ==
    resetEpisodeStats([self EXCEPT !.prevObservation = NoObservation,
                                   !.prevState = NoQState,
                                   !.prevActionIndex = NoAction,
                                   !.prevScore = gm.score])

stop(self) == [self EXCEPT !.mode = "idle", !.stepPenalty = "play", !.running = FALSE]

\* agent.update(prevState, actionIndex, reward, nextState, done), as the
\* call it is.
QUpdate(state, action, reward, next, done) ==
    [state |-> state, action |-> action, reward |-> reward, next |-> next,
     done |-> done]

\* What a handler leaves: the learner, the game, the calls of agent.update
\* made, whether an episode was ended and how many resetGame() calls were
\* left sleeping.
Outcome(self, gm, learned, ended, sleeping) ==
    [self |-> self, game |-> gm, learned |-> learned, ended |-> ended,
     sleeping |-> sleeping]

\* Lines 424-445, after the counter is raised.
endEpisodeGoesOn(self, gm, stays, f, learned) ==
    IF self.mode = "train" /\ self.completedEpisodes < self.targetEpisodes
    THEN Outcome(self, resetGameClicks(gm, stays, f), learned, TRUE, 1)
    ELSE Outcome(stop(self), gm, learned, TRUE, 0)

endEpisodeCountsTwice(self, gm, stays, terminalReward, f, learned) ==
    endEpisodeGoesOn(
        [self EXCEPT !.prevState = NoQState, !.prevActionIndex = NoAction,
                     !.prevObservation = NoObservation, !.prevDistance = NoDistance,
                     !.lastHeadKey = NoKey, !.noProgressSteps = 0,
                     !.bestDistance = Infinity, !.currentEpisodeScore = 0,
                     !.completedEpisodes = @ + 2],
        gm, stays, f, learned)

endEpisode(self, gm, stays, terminalReward, f, learned) ==
    endEpisodeGoesOn(
        [self EXCEPT !.prevState = NoQState, !.prevActionIndex = NoAction,
                     !.prevObservation = NoObservation, !.prevDistance = NoDistance,
                     !.lastHeadKey = NoKey, !.noProgressSteps = 0,
                     !.bestDistance = Infinity, !.currentEpisodeScore = 0,
                     !.episodeScores =
                         IF self.mode = "train"
                         THEN Append(@, IF self.prevObservation # NoObservation
                                        THEN self.prevObservation.score
                                        ELSE self.currentEpisodeScore)
                         ELSE @,
                     !.completedEpisodes = @ + 1],
        gm, stays, f,
        IF self.prevState # NoQState /\ self.prevActionIndex # NoAction
        THEN learned \o <<QUpdate(self.prevState, self.prevActionIndex,
                                  Terminal(terminalReward), NoQState, TRUE)>>
        ELSE learned)

\* Lines 331-343 of update(): a new action is chosen when none is waiting
\* for its reward; act is the index chooseAction returns.
updateActs(self, gm, o, currentState, act, learned) ==
    IF self.prevState = NoQState
    THEN LET done == executeAction(self, TURN_ACTIONS[act + 1], o)
         IN Outcome([done.self EXCEPT !.prevState = currentState,
                                      !.prevActionIndex = act,
                                      !.prevDistance = o.foodDistance,
                                      !.prevScore = o.score,
                                      !.prevObservation = o,
                                      !.lastHeadKey = coordKey(o.head),
                                      !.currentEpisodeScore = o.score],
                    IF Len(done.keys) > 0 THEN KeyDown(gm, done.keys[1]) ELSE gm,
                    learned, FALSE, 0)
    ELSE Outcome([self EXCEPT !.prevObservation = o,
                              !.lastHeadKey = coordKey(o.head),
                              !.currentEpisodeScore = o.score],
                 gm, learned, FALSE, 0)

\* Lines 326-329.
updateEnds(self, gm, stays, o, currentState, act, f, learned) ==
    IF isGameOver(gm)
    THEN endEpisode(self, gm, stays, "death", f, learned)
    ELSE updateActs(self, gm, o, currentState, act, learned)

\* Lines 310-324: the reward of the action taken, once the head has moved.
updateLearns(self, gm, stays, o, seen, act, f) ==
    IF self.prevState # NoQState /\ self.prevActionIndex # NoAction
       /\ coordKey(o.head) # self.lastHeadKey
    THEN updateEnds([seen.self EXCEPT !.prevState = NoQState,
                                      !.prevActionIndex = NoAction,
                                      !.prevDistance = o.foodDistance,
                                      !.prevScore = o.score],
                    gm, stays, o, seen.state, act, f,
                    <<QUpdate(self.prevState, self.prevActionIndex,
                              computeReward(seen.self, o, isGameOver(gm)),
                              seen.state, isGameOver(gm))>>)
    ELSE updateEnds(seen.self, gm, stays, o, seen.state, act, f, <<>>)

\* Lines 297-308: steps without progress towards the food.
updateStalls(self, gm, stays, o, act, f) ==
    IF self.mode = "train" /\ o.foodDistance # NoDistance
    THEN LET counted == IF o.foodDistance < self.bestDistance
                        THEN [self EXCEPT !.bestDistance = o.foodDistance,
                                          !.noProgressSteps = 0]
                        ELSE [self EXCEPT !.noProgressSteps = @ + 1]
         IN IF counted.noProgressSteps > counted.noProgressLimit
            THEN endEpisode(counted, gm, stays, counted.stallPenalty, f, <<>>)
            ELSE updateLearns(counted, gm, stays, o, extractState(counted, o), act, f)
    ELSE updateLearns(self, gm, stays, o, extractState(self, o), act, f)

\* Lines 290-295.
updateScores(self, gm, stays, o, act, f) ==
    IF self.mode = "train"
       /\ o.score > (IF self.prevObservation # NoObservation
                     THEN self.prevObservation.score ELSE self.prevScore)
    THEN updateStalls([self EXCEPT
                          !.bestDistance = IF o.foodDistance # NoDistance
                                           THEN o.foodDistance ELSE Infinity,
                          !.noProgressSteps = 0],
                      gm, stays, o, act, f)
    ELSE updateStalls(self, gm, stays, o, act, f)

\* update() of the learner; act is what chooseAction returns if it is
\* called, f where a game started by resetGame() puts its food.
\* Lines 287-288.
updateObserved(self, gm, stays, o, act, f) ==
    IF o = NoObservation THEN Outcome(self, gm, <<>>, FALSE, 0)
    ELSE updateScores(self, gm, stays, o, act, f)

learnerUpdate(self, gm, stays, act, f) ==
    IF ~isPlaying(gm, stays) THEN Outcome(self, gm, <<>>, FALSE, 0)
    ELSE updateObserved(self, gm, stays, observe(self, Render(gm, FALSE), gm.score),
                        act, f)

\* train(), up to the sleep of the resetGame() it awaits.
train(self, episodes, noProgressLimit) ==
    resetEpisodeStats([self EXCEPT !.mode = "train", !.targetEpisodes = episodes,
                                   !.completedEpisodes = 0, !.stepPenalty = "train",
                                   !.noProgressLimit = noProgressLimit,
                                   !.stallPenalty = "stall",
                                   !.episodeScores = <<>>])

\* play(), up to the sleep of the resetGame() it awaits.
play(self) ==
    [self EXCEPT !.mode = "play", !.stepPenalty = "play",
                 !.noProgressLimit = Infinity, !.stallPenalty = "zero"]

\* startLoop(): the result is [self, frames], frames the callbacks of
\* loop() requested and not yet run.
startLoop(self, frames) ==
    IF self.running THEN [self |-> self, frames |-> frames]
    ELSE [self |-> [self EXCEPT !.running = TRUE], frames |-> frames + 1]

(***************************************************************************)
(* Training and play: the calls of train(), play() and stop() from the     *)
(* page, the frame callbacks of loop() and of the checks of the promises   *)
(* of train(), the timers of the resetGame() calls, the engine.  loop      *)
(* holds what is scheduled: frames, the callbacks of loop() requested;     *)
(* timers, the sleeping resetGame() calls in the order their timers fire,  *)
(* each named after its caller; polling and resolved, the promises of      *)
(* train() whose check still asks for frames and those resolved.  It also  *)
(* keeps calls, the number of train() and play() calls made, last, the     *)
(* latest of them, and alone, whether the latest was made while the loop   *)
(* was not running and no train() or play() was waiting in resetGame().    *)
(* log holds what the last handler did.                                    *)
(***************************************************************************)
QuietLog == [op |-> "", pairBefore |-> NoQState, actionBefore |-> NoAction,
             learned |-> <<>>, ended |-> FALSE, doneBefore |-> FALSE]

Did(op, learned, ended) ==
    [op |-> op, pairBefore |-> bot.prevState, actionBefore |-> bot.prevActionIndex,
     learned |-> learned, ended |-> ended,
     doneBefore |-> bot.completedEpisodes >= bot.targetEpisodes]

InitTrain ==
    /\ \E f \in FoodSpots(StartScreen(TrainGrid)) : game = NewGame(TrainGrid, f)
    /\ bot = NewLearner(TrainGrid, 0)
    /\ log = QuietLog
    /\ \E stays \in BOOLEAN :
          loop = [frames |-> 0, timers |-> <<>>, polling |-> 0, resolved |-> 0,
                  calls |-> 0, last |-> "none", alone |-> FALSE, stays |-> stays]
    /\ pc = "frame"
    /\ \E episodes \in 1..TrainMaxEpisodes, limit \in 0..TrainMaxLimit :
          args = [episodes |-> episodes, noProgressLimit |-> limit]
    /\ ret = <<>>

\* No train() or play() is between its click and the end of its sleep.
NoneAwaiting == \A i \in 1..Len(loop.timers) : loop.timers[i] = "reset"

Called(name) ==
    [loop EXCEPT !.timers = Append(@, name), !.calls = @ + 1, !.last = name,
                 !.alone = ~bot.running /\ NoneAwaiting]

\* train(args) is called from the page; it sleeps in resetGame().
CallTrain ==
    /\ loop.calls < TrainMaxCalls
    /\ bot' = train(bot, args.episodes, args.noProgressLimit)
    /\ \E f \in FoodSpots(game) : game' = resetGameClicks(game, loop.stays, f)
    /\ loop' = Called("train")
    /\ log' = Did("train", <<>>, FALSE)
    /\ UNCHANGED <<pc, args, ret>>

\* play() is called from the page; it sleeps in resetGame().
CallPlay ==
    /\ loop.calls < TrainMaxCalls
    /\ bot' = play(bot)
    /\ \E f \in FoodSpots(game) : game' = resetGameClicks(game, loop.stays, f)
    /\ loop' = Called("play")
    /\ log' = Did("play", <<>>, FALSE)
    /\ UNCHANGED <<pc, args, ret>>

\* The sleep of the resetGame() that train() awaits is over: lines 183-187,
\* then startLoop() and the promise with its first check scheduled.
TrainResumes ==
    /\ Len(loop.timers) > 0 /\ Head(loop.timers) = "train"
    /\ \E started \in {startLoop(resetGameResumes(bot, game), loop.frames)} :
          /\ bot' = started.self
          /\ loop' = [loop EXCEPT !.timers = Tail(@), !.frames = started.frames,
                                  !.polling = @ + 1]
    /\ log' = Did("started", <<>>, FALSE)
    /\ UNCHANGED <<game, pc, args, ret>>

\* The sleep of the resetGame() that play() awaits is over: lines 183-187,
\* then startLoop().
PlayResumes ==
    /\ Len(loop.timers) > 0 /\ Head(loop.timers) = "play"
    /\ \E started \in {startLoop(resetGameResumes(bot, game), loop.frames)} :
          /\ bot' = started.self
          /\ loop' = [loop EXCEPT !.timers = Tail(@), !.frames = started.frames]
    /\ log' = Did("playing", <<>>, FALSE)
    /\ UNCHANGED <<game, pc, args, ret>>

\* stop() is called from the page.
CallStop ==
    /\ stop(bot) # bot
    /\ bot' = stop(bot)
    /\ log' = Did("stop", <<>>, FALSE)
    /\ UNCHANGED <<game, loop, pc, args, ret>>

\* A frame callback of loop() finds running false.
FrameIdle ==
    /\ loop.frames > 0
    /\ ~bot.running
    /\ loop' = [loop EXCEPT !.frames = @ - 1]
    /\ log' = Did("idle", <<>>, FALSE)
    /\ UNCHANGED <<bot, game, pc, args, ret>>

\* A frame callback of loop() runs update() and asks for the next frame if
\* still running.
\* Where the food of a new game appears matters only if update() starts one.
FrameRuns ==
    /\ loop.frames > 0
    /\ bot.running
    /\ \E act \in 0..2 :
       \E once \in {learnerUpdate(bot, game, loop.stays, act, AnySpot(game))} :
       \E f \in IF once.sleeping > 0 THEN FoodSpots(game) ELSE {AnySpot(game)} :
       \E done \in {IF once.sleeping > 0
                    THEN learnerUpdate(bot, game, loop.stays, act, f) ELSE once} :
          /\ bot' = done.self
          /\ game' = [done.game EXCEPT !.seen = TRUE]
          /\ loop' = [loop EXCEPT !.frames = IF done.self.running THEN @ ELSE @ - 1,
                                  !.timers = IF done.sleeping > 0
                                             THEN Append(@, "reset") ELSE @]
          /\ log' = Did("update", done.learned, done.ended)
    /\ UNCHANGED <<pc, args, ret>>

\* update() throws where it reads the canvas (line 453): loop() stops.
FrameThrows ==
    /\ loop.frames > 0
    /\ bot.running
    /\ isPlaying(game, loop.stays)
    /\ bot' = stop(bot)
    /\ loop' = [loop EXCEPT !.frames = @ - 1]
    /\ log' = Did("threw", <<>>, FALSE)
    /\ UNCHANGED <<game, pc, args, ret>>

\* The sleep of a resetGame() that endEpisode did not await is over.
ResetResumes ==
    /\ Len(loop.timers) > 0 /\ Head(loop.timers) = "reset"
    /\ bot' = resetGameResumes(bot, game)
    /\ loop' = [loop EXCEPT !.timers = Tail(@)]
    /\ log' = Did("reset", <<>>, FALSE)
    /\ UNCHANGED <<game, pc, args, ret>>

\* The check of a promise of train() finds the episodes done and resolves;
\* until then it asks for the next frame.
CheckResolves ==
    /\ loop.polling > 0
    /\ bot.completedEpisodes >= bot.targetEpisodes
    /\ loop' = [loop EXCEPT !.polling = @ - 1, !.resolved = @ + 1]
    /\ log' = Did("check", <<>>, FALSE)
    /\ UNCHANGED <<bot, game, pc, args, ret>>

NextTrain ==
    \/ CallTrain \/ CallPlay \/ TrainResumes \/ PlayResumes \/ FrameIdle
    \/ FrameRuns \/ FrameThrows \/ ResetResumes \/ CheckResolves \/ CallStop
    \/ GameStep

SpecTrain == InitTrain /\ [][NextTrain]_vars


\* C31: when the continuation of a resetGame() that endEpisode started
\* has run, a prevState/prevActionIndex pair that update() recorded while
\* the reset was sleeping is still the learner's pair, or agent.update was
\* called for it.
C31_ResetKeepsRecordedPair ==
    (log.op = "reset" /\ log.pairBefore # NoQState /\ log.actionBefore # NoAction)
        => \/ bot.prevState = log.pairBefore /\ bot.prevActionIndex = log.actionBefore
           \/ \E i \in 1..Len(log.learned) :
                 /\ log.learned[i].state = log.pairBefore
                 /\ log.learned[i].action = log.actionBefore


\* The frame callback of a promise's check runs in every frame.
SpecTrainLive == SpecTrain /\ WF_vars(CheckResolves)

\* The latest call of train() or play() was a train().
TrainCalled == loop.last = "train"
EpisodesDone == bot.completedEpisodes >= bot.targetEpisodes

\* completedEpisodes grows only in an update() that ends an episode, and
\* then by exactly one.
CountsByOne ==
    [][/\ bot'.completedEpisodes > bot.completedEpisodes
          => /\ bot'.completedEpisodes = bot.completedEpisodes + 1
             /\ log'.op = "update" /\ log'.ended
       /\ (log'.op = "update" /\ log'.ended /\ bot' # bot)
          => bot'.completedEpisodes = bot.completedEpisodes + 1]_vars

\* C32: once train() is called with episodes >= 1, completedEpisodes never
\* exceeds targetEpisodes and grows by exactly one per ended episode; when it
\* has reached targetEpisodes running is false and the mode is idle, no
\* update() runs from then on, and the promises of train() resolve.
C32_EpisodesAreCountedAndTrainingEnds ==
    /\ [](TrainCalled => bot.completedEpisodes <= bot.targetEpisodes)
    /\ [](TrainCalled /\ EpisodesDone => ~bot.running /\ bot.mode = "idle")
    /\ [](TrainCalled /\ log.op \in {"update", "threw"} => ~log.doneBefore)
    /\ CountsByOne
    /\ \A n \in 1..TrainMaxCalls :
          (TrainCalled /\ EpisodesDone /\ loop.calls = n)
              ~> ((loop.polling = 0 /\ loop.resolved > 0) \/ loop.calls # n)

\* The parts of C32 a train() called during another call's resetGame(), or
\* while the loop runs, breaks: the counter passes the target, and the loop
\* runs with the counter at the target.
CounterWithinTarget == TrainCalled => bot.completedEpisodes <= bot.targetEpisodes
StoppedWhenDone == (TrainCalled /\ EpisodesDone) => (~bot.running /\ bot.mode = "idle")

\* The same requirement of a train() called while the loop was not running
\* and no train() or play() was waiting in resetGame(), until the next call:
\* the loop then stops at the target and the promise resolves.
CalledAlone == TrainCalled /\ loop.alone
EpisodesCountedWhenCalledAlone ==
    /\ [](CalledAlone => bot.completedEpisodes <= bot.targetEpisodes)
    /\ [](CalledAlone /\ EpisodesDone => ~bot.running /\ bot.mode = "idle")
    /\ [](CalledAlone /\ log.op \in {"update", "threw"} => ~log.doneBefore)
    /\ CountsByOne
    /\ \A n \in 1..TrainMaxCalls :
          (CalledAlone /\ EpisodesDone /\ loop.calls = n)
              ~> ((loop.polling = 0 /\ loop.resolved > 0) \/ loop.calls # n)
TrainedAlone ==
    /\ CalledAlone
    /\ loop.polling = 0 /\ loop.resolved > 0
    /\ bot.targetEpisodes = 2 /\ bot.completedEpisodes = 2
    /\ Len(bot.episodeScores) = 2
    /\ ~bot.running /\ bot.mode = "idle"

=============================================================================
